---- MODULE Spec2Model ----
(***************************************************************************)
(* Model of the client-side analytics of the property-search dashboard     *)
(* (src/app.js): descriptive statistics, investment scoring, ranking and   *)
(* outlier detection over the current result set.                          *)
(*                                                                         *)
(* JavaScript numbers are modelled exactly as tagged rationals: a value is *)
(* a finite rational n/d, NaN, +Infinity or -Infinity.  Every sample value *)
(* and every percentile the model draws is one for which the IEEE-754      *)
(* arithmetic of the code is exact, so the rational is the value the code  *)
(* computes.  `undefined` used as an operand of arithmetic is NaN.         *)
(***************************************************************************)
EXTENDS Integers, Sequences, FiniteSets, TLC

VARIABLES
    currentProperties,    \* app.js: let currentProperties = []
    now,                  \* the wall clock (new Date()), in hours
    investmentScores,     \* what generateInvestmentScores rendered
    topPicks,             \* what generateTopPicks rendered
    outlierAnalysis,      \* what generateOutlierDetection rendered
    statisticalAnalysis,  \* what generateStatisticalAnalysis rendered
    fn,                   \* the pure function applied last
    arg,                  \* its input
    ret,                  \* its result
    mortgage,             \* the mortgage calculator: its fields and its results
    cashflow,             \* the cash flow calculator, with the classes of #cashflowStatus
    affordability,        \* the affordability calculator, with the classes of its verdict
    propertiesGrid,       \* the cards of #propertyGrid and the order they were put in
    valueAnalysis,        \* what generateValueAnalysis rendered
    timeline,             \* the timeline view: timelineData, its range, slider and grid
    swipeStack,           \* app.js: let swipeStack = []
    currentSwipeIndex,    \* app.js: let currentSwipeIndex = 0 (counted from 0)
    likedProperties,      \* app.js: let likedProperties = []
    passedProperties,     \* app.js: let passedProperties = []
    swipeHistory,         \* app.js: let swipeHistory = []
    currentCard,          \* app.js: let currentCard = null; the card element
    swipeStackEl,         \* what #swipeStack shows
    advanceTimers,        \* the setTimeout(..., 500) callbacks not yet run
    comparisonProperties, \* app.js: let comparisonProperties = []
    propertyMap,          \* app.js: let propertyMap = null; TRUE once the map exists
    mapMarkers,           \* app.js: let mapMarkers = []; the propertyData of each marker
    shownMarkers,         \* the markers that are on the map or in the cluster group
    currentMapFilters,    \* app.js: let currentMapFilters = {...}
    priceSliders,         \* the elements #minPriceSlider and #maxPriceSlider
    visiblePropertyCount, \* the text of #visiblePropertyCount
    heatMapLayer,         \* app.js: let heatMapLayer = null; the data of the layer
    isHeatMapVisible,     \* app.js: let isHeatMapVisible = false
    searches,             \* the calls of fetchSuburbData that reached fetch, in order
    currentSuburb,        \* app.js: let currentSuburb = ''
    lastFetchedData,      \* app.js: let lastFetchedData = null
    suburbNameSpan,       \* the text of #suburbName
    resultsSection,       \* the style.display of #results
    loadingDiv,           \* the style.display of #loading
    errorDiv,             \* #error: its style.display and its message
    searchBtn             \* #searchBtn: its disabled property

vars == <<currentProperties, now, investmentScores, topPicks, outlierAnalysis,
          statisticalAnalysis, fn, arg, ret, mortgage, cashflow, affordability,
          propertiesGrid, valueAnalysis, timeline, swipeStack, currentSwipeIndex,
          likedProperties, passedProperties, swipeHistory, currentCard, swipeStackEl,
          advanceTimers, comparisonProperties, propertyMap, mapMarkers, shownMarkers,
          currentMapFilters, priceSliders, visiblePropertyCount, heatMapLayer,
          isHeatMapVisible, searches,
          currentSuburb, lastFetchedData, suburbNameSpan, resultsSection, loadingDiv,
          errorDiv, searchBtn>>

\* the state of the calculator, swipe, comparison and map panels, and of a search
calcVars == <<mortgage, cashflow, affordability>>
swipeVars == <<swipeStack, currentSwipeIndex, likedProperties, passedProperties,
               swipeHistory, currentCard, swipeStackEl, advanceTimers>>
mapVars == <<propertyMap, mapMarkers, shownMarkers, currentMapFilters, priceSliders,
             visiblePropertyCount, heatMapLayer, isHeatMapVisible>>
\* what a call of fetchSuburbData changes besides the list and the grid
requestVars == <<searches, lastFetchedData, loadingDiv, errorDiv, searchBtn>>
searchVars == <<requestVars, currentSuburb, suburbNameSpan, resultsSection>>
boardVars == <<swipeVars, comparisonProperties, mapVars>>
panelVars == <<boardVars, searchVars>>
uiVars == <<panelVars, calcVars, propertiesGrid, valueAnalysis, timeline>>

(***************************************************************************)
(* Bounds of the model.                                                    *)
(***************************************************************************)
MaxLen == 4        \* longest numeric sample drawn for the statistics helpers
MaxStr == 5        \* longest land-size string
MaxOthers == 2     \* records beside the scored one in a scoring result set
MaxClock == 1      \* hours the clock advances
MaxProps == 4      \* longest result set drawn for the outlier and statistics panels
MaxRank == 7       \* longest result set drawn for the rankings
MaxYears == 3      \* longest loan term drawn at a rate of 0

(***************************************************************************)
(* JavaScript numbers.                                                     *)
(***************************************************************************)
\* the element of a set of one element: {e(x) : x \in {v}} computes v once
Only(S) == CHOOSE element \in S : TRUE

Abs(x) == IF x < 0 THEN -x ELSE x

RECURSIVE GCD(_, _)
GCD(a, b) == IF b = 0 THEN a ELSE GCD(b, a % b)

JsNum(n, d) ==
    LET s == IF d < 0 THEN -1 ELSE 1
        g == GCD(Abs(n), Abs(d))
    IN  [k |-> "num", n |-> (s * n) \div g, d |-> (s * d) \div g]

JsInt(i) == [k |-> "num", n |-> i, d |-> 1]
NaN      == [k |-> "nan", n |-> 0, d |-> 1]
Undefined == [k |-> "undefined", n |-> 0, d |-> 1]
PosInf   == [k |-> "inf", n |-> 1, d |-> 1]
NegInf   == [k |-> "inf", n |-> -1, d |-> 1]

IsNum(a)    == a.k = "num"
\* ToNumber(undefined) is NaN
IsNaN(a)    == a.k \in {"nan", "undefined"}
\* the truthiness of a number or of undefined
Truthy(a)   == a.k = "inf" \/ (a.k = "num" /\ a.n # 0)
IsFinite(a) == a.k \in {"num", "sqrt", "finite"}
Sign(a)     == IF a.n > 0 THEN 1 ELSE IF a.n < 0 THEN -1 ELSE 0
Infinite(s) == IF s > 0 THEN PosInf ELSE NegInf

\* a < b ; every comparison with NaN is false
JsLt(a, b) ==
    IF IsNaN(a) \/ IsNaN(b) THEN FALSE
    ELSE IF IsNum(a) /\ IsNum(b) THEN a.n * b.d < b.n * a.d
    ELSE IF IsNum(a) THEN b.n > 0
    ELSE IF IsNum(b) THEN a.n < 0
    ELSE a.n < b.n

JsGt(a, b) == JsLt(b, a)

\* a >= b and a <= b
JsGe(a, b) == ~IsNaN(a) /\ ~IsNaN(b) /\ ~JsLt(a, b)
JsLe(a, b) == JsGe(b, a)

JsNeg(a) == [a EXCEPT !.n = -a.n]

JsAdd(a, b) ==
    IF IsNaN(a) \/ IsNaN(b) THEN NaN
    ELSE IF IsNum(a) /\ IsNum(b) THEN
        LET g == GCD(a.d, b.d)
        IN  JsNum(a.n * (b.d \div g) + b.n * (a.d \div g), (a.d \div g) * b.d)
    ELSE IF IsNum(a) THEN b
    ELSE IF IsNum(b) THEN a
    ELSE IF a.n = b.n THEN a ELSE NaN

JsSub(a, b) == JsAdd(a, JsNeg(b))

JsMul(a, b) ==
    IF IsNaN(a) \/ IsNaN(b) THEN NaN
    ELSE IF IsNum(a) /\ IsNum(b) THEN
        LET g == GCD(Abs(a.n), b.d)
            h == GCD(Abs(b.n), a.d)
        IN  JsNum((a.n \div g) * (b.n \div h), (a.d \div h) * (b.d \div g))
    ELSE IF Sign(a) * Sign(b) = 0 THEN NaN
    ELSE Infinite(Sign(a) * Sign(b))

JsDiv(a, b) ==
    IF IsNaN(a) \/ IsNaN(b) THEN NaN
    ELSE IF IsNum(a) /\ IsNum(b) THEN
        IF b.n # 0 THEN JsMul(a, JsNum(b.d, b.n))
        ELSE IF a.n = 0 THEN NaN ELSE Infinite(Sign(a))
    ELSE IF IsNum(a) THEN JsInt(0)
    ELSE IF IsNum(b) THEN Infinite(Sign(a) * (IF b.n < 0 THEN -1 ELSE 1))
    ELSE NaN

\* Math.floor, Math.ceil and x % 1 of a finite non-negative number
JsFloor(a) == a.n \div a.d
JsCeil(a)  == -((-a.n) \div a.d)
JsFrac(a)  == JsNum(a.n % a.d, a.d)

\* Math.round: the nearest integer, halves rounded up
JsRound(a) ==
    IF IsNaN(a) THEN NaN
    ELSE IF IsNum(a) THEN JsInt((2 * a.n + a.d) \div (2 * a.d))
    ELSE a

\* Math.min and Math.max of two numbers
JsMin(a, b) == IF IsNaN(a) \/ IsNaN(b) THEN NaN ELSE IF JsLt(b, a) THEN b ELSE a
JsMax(a, b) == IF IsNaN(a) \/ IsNaN(b) THEN NaN ELSE IF JsLt(a, b) THEN b ELSE a

\* Math.sqrt of a finite number >= 0: the rational root when there is one,
\* and otherwise the irrational number sqrt(n/d), kept as [k |-> "sqrt"]
ISqrt(n) == CHOOSE r \in 0..n : r * r <= n /\ (r + 1) * (r + 1) > n

JsSqrt(a) ==
    LET rn == ISqrt(a.n)
        rd == ISqrt(a.d)
    IN  IF rn * rn = a.n /\ rd * rd = a.d THEN JsNum(rn, rd)
        ELSE [k |-> "sqrt", n |-> a.n, d |-> a.d]

\* a finite non-zero number of the given sign whose magnitude is not kept
Sized(sign) == [k |-> "finite", n |-> sign, d |-> 1]

\* x || 0
OrZero(a) == IF Truthy(a) THEN a ELSE JsInt(0)

(***************************************************************************)
(* Arrays.  An array is a sequence; JavaScript indexes it from 0 and       *)
(* reads `undefined` outside it.                                           *)
(***************************************************************************)
Range(s) == {s[i] : i \in DOMAIN s}

RECURSIVE SeqsUpTo(_, _)
SeqsUpTo(S, n) ==
    IF n = 0 THEN {<<>>}
    ELSE LET shorter == SeqsUpTo(S, n - 1)
         IN  shorter \cup {Append(s, x) : s \in {t \in shorter : Len(t) = n - 1}, x \in S}

\* arr[i] of an array of integers, as a JavaScript number operand
At(arr, i) == IF i >= 0 /\ i < Len(arr) THEN JsInt(arr[i + 1]) ELSE NaN

\* [...arr].sort((a, b) => a - b): a copy in ascending numeric order
RECURSIVE InsertAsc(_, _)
InsertAsc(x, s) ==
    IF s = <<>> THEN <<x>>
    ELSE IF x < Head(s) THEN <<x>> \o s
    ELSE <<Head(s)>> \o InsertAsc(x, Tail(s))

RECURSIVE SortAsc(_)
SortAsc(arr) ==
    IF arr = <<>> THEN <<>>
    ELSE InsertAsc(arr[Len(arr)], SortAsc(SubSeq(arr, 1, Len(arr) - 1)))

(***************************************************************************)
(* Statistical helper functions.                                           *)
(***************************************************************************)
calculateMedianUnsorted(arr) ==
    LET mid == Len(arr) \div 2
    IN  IF Len(arr) % 2 = 0
        THEN JsDiv(JsAdd(At(arr, mid - 1), At(arr, mid)), JsInt(2))
        ELSE At(arr, mid)

calculateMedian(arr) ==
    LET sorted == SortAsc(arr)
        mid    == Len(sorted) \div 2
    IN  IF Len(sorted) % 2 = 0
        THEN JsDiv(JsAdd(At(sorted, mid - 1), At(sorted, mid)), JsInt(2))
        ELSE At(sorted, mid)

calculatePercentileSwapped(arr, percentile) ==
    IF Len(arr) = 0 THEN JsInt(0)
    ELSE LET sorted == SortAsc(arr)
             index  == JsNum(percentile * (Len(sorted) - 1), 100)
             lower  == JsFloor(index)
             upper  == JsCeil(index)
             weight == JsFrac(index)
         IN  IF lower = upper THEN At(sorted, lower)
             ELSE JsAdd(JsMul(At(sorted, lower), weight),
                        JsMul(At(sorted, upper), JsSub(JsInt(1), weight)))

calculatePercentile(arr, percentile) ==
    IF Len(arr) = 0 THEN JsInt(0)
    ELSE LET sorted == SortAsc(arr)
             index  == JsNum(percentile * (Len(sorted) - 1), 100)
             lower  == JsFloor(index)
             upper  == JsCeil(index)
             weight == JsFrac(index)
         IN  IF lower = upper THEN At(sorted, lower)
             ELSE JsAdd(JsMul(At(sorted, lower), JsSub(JsInt(1), weight)),
                        JsMul(At(sorted, upper), weight))

\* arr.reduce((a, b) => a + b, 0) over an array of numbers
RECURSIVE SumOf(_)
SumOf(vals) ==
    IF vals = <<>> THEN JsInt(0)
    ELSE JsAdd(SumOf(SubSeq(vals, 1, Len(vals) - 1)), vals[Len(vals)])

calculateMean(arr) ==
    IF Len(arr) = 0 THEN JsInt(0)
    ELSE JsDiv(SumOf([i \in DOMAIN arr |-> JsInt(arr[i])]), JsInt(Len(arr)))

\* the mean of the squared differences from the mean
Variance(arr) ==
    LET mean        == calculateMean(arr)
        squareDiffs == [i \in DOMAIN arr |->
                           LET diff == JsSub(JsInt(arr[i]), mean) IN JsMul(diff, diff)]
    IN  JsDiv(SumOf(squareDiffs), JsInt(Len(arr)))

calculateStdDev(arr) ==
    IF Len(arr) = 0 THEN JsInt(0)
    ELSE JsSqrt(Variance(arr))

\* the sum of the cubed differences from the mean
SumCubedDiffs(arr) ==
    LET mean == calculateMean(arr)
    IN  SumOf([i \in DOMAIN arr |->
                  LET diff == JsSub(JsInt(arr[i]), mean)
                  IN  JsMul(JsMul(diff, diff), diff)])

\* The result is kept by its class and sign.  With stdDev = 0 every cubed
\* term is (0/0)^3 = NaN; with n = 2 the factor n / ((n-1)(n-2)) is 2/0 =
\* Infinity and the cubed terms are -1 and 1, so the product is NaN.
calculateSkewness(arr) ==
    IF Len(arr) = 0 THEN JsInt(0)
    ELSE LET n      == Len(arr)
             stdDev == calculateStdDev(arr)
             sum    == SumCubedDiffs(arr)
         IN  IF stdDev = JsInt(0) THEN NaN
             ELSE IF (n - 1) * (n - 2) = 0
                  THEN JsMul(PosInf, sum)
             ELSE IF sum.n = 0 THEN JsInt(0)
             ELSE Sized(Sign(sum))

\* Math.max(...arr) and Math.min(...arr)
RECURSIVE MathMax(_)
MathMax(arr) ==
    IF arr = <<>> THEN NegInf
    ELSE JsMax(MathMax(SubSeq(arr, 1, Len(arr) - 1)), JsInt(arr[Len(arr)]))

RECURSIVE MathMin(_)
MathMin(arr) ==
    IF arr = <<>> THEN PosInf
    ELSE JsMin(MathMin(SubSeq(arr, 1, Len(arr) - 1)), JsInt(arr[Len(arr)]))

\* calculateStdDev(prices) / calculateMean(prices) * 100
CoefficientOfVariation(arr) ==
    LET stdDev == calculateStdDev(arr)
        mean   == calculateMean(arr)
    IN  IF stdDev.k = "sqrt"
        THEN LET q == JsDiv(JsInt(100), mean)
                 v == JsMul(JsMul(q, q), JsNum(stdDev.n, stdDev.d))
             IN  [k |-> "sqrt", n |-> v.n, d |-> v.d]
        ELSE JsMul(JsDiv(stdDev, mean), JsInt(100))

(***************************************************************************)
(* Strings.  A string is a sequence of one-character strings.              *)
(***************************************************************************)
Digits == {"0", "1", "2", "3", "4", "5", "6", "7", "8", "9"}

DigitVal(c) ==
    CASE c = "0" -> 0 [] c = "1" -> 1 [] c = "2" -> 2 [] c = "3" -> 3
      [] c = "4" -> 4 [] c = "5" -> 5 [] c = "6" -> 6 [] c = "7" -> 7
      [] c = "8" -> 8 [] c = "9" -> 9

DigitChar(v) ==
    CASE v = 0 -> "0" [] v = 1 -> "1" [] v = 2 -> "2" [] v = 3 -> "3"
      [] v = 4 -> "4" [] v = 5 -> "5" [] v = 6 -> "6" [] v = 7 -> "7"
      [] v = 8 -> "8" [] v = 9 -> "9"

RECURSIVE Pow10(_)
Pow10(e) == IF e = 0 THEN 1 ELSE 10 * Pow10(e - 1)

\* the value of a run of decimal digits (0 for the empty run)
RECURSIVE DigitsValue(_)
DigitsValue(ds) ==
    IF ds = <<>> THEN 0
    ELSE 10 * DigitsValue(SubSeq(ds, 1, Len(ds) - 1)) + DigitVal(ds[Len(ds)])

\* String(n) of a non-negative integer
RECURSIVE NumberToString(_)
NumberToString(n) ==
    IF n < 10 THEN <<DigitChar(n)>>
    ELSE Append(NumberToString(n \div 10), DigitChar(n % 10))

\* the longest prefix of s made of characters of the class C
RECURSIVE TakeWhile(_, _)
TakeWhile(s, C) ==
    IF s = <<>> \/ Head(s) \notin C THEN <<>>
    ELSE <<Head(s)>> \o TakeWhile(Tail(s), C)

RECURSIVE DropWhile(_, _)
DropWhile(s, C) ==
    IF s = <<>> \/ Head(s) \notin C THEN s ELSE DropWhile(Tail(s), C)

\* String(landStr).match(/[\d.]+/): the leftmost longest run of digits and
\* dots, or the empty sequence when there is no match
MatchDigitsDots(s) ==
    LET class == Digits \cup {"."}
    IN  TakeWhile(DropWhile(s, {c \in Range(s) : c \notin class}), class)

\* parseFloat of a string of digits and dots: the longest prefix that is a
\* decimal literal (digits, then optionally a dot and digits), NaN when that
\* prefix holds no digit
parseFloat(tok) ==
    LET int   == TakeWhile(tok, Digits)
        rest  == SubSeq(tok, Len(int) + 1, Len(tok))
        frac  == IF rest # <<>> /\ Head(rest) = "."
                 THEN TakeWhile(Tail(rest), Digits) ELSE <<>>
    IN  IF int = <<>> /\ frac = <<>> THEN NaN
        ELSE JsNum(DigitsValue(int) * Pow10(Len(frac)) + DigitsValue(frac),
                   Pow10(Len(frac)))

(***************************************************************************)
(* Property records.  A land size is undefined, a number or a string:      *)
(*   [t |-> "undefined"], [t |-> "num", v |-> 650],                        *)
(*   [t |-> "str", v |-> <<"6", "5", "0", "m">>].                          *)
(* A price, a count and a listing date (in hours) are numbers or Undefined.*)
(***************************************************************************)
NoLand      == [t |-> "undefined", v |-> <<>>]
LandNum(n)  == [t |-> "num", v |-> n]
LandStr(cs) == [t |-> "str", v |-> cs]

\* the hours of a day: the clock and the listing dates count hours
HoursPerDay == 24

\* !landStr: undefined, the number 0 and the empty string are falsy
Falsy(landStr) ==
    \/ landStr.t = "undefined"
    \/ landStr.t = "num" /\ landStr.v = 0
    \/ landStr.t = "str" /\ landStr.v = <<>>

\* Helper function to parse land size
parseLandSize(landStr) ==
    IF Falsy(landStr) THEN JsInt(0)
    ELSE LET str   == IF landStr.t = "num" THEN NumberToString(landStr.v) ELSE landStr.v
             match == MatchDigitsDots(str)
         IN  IF match # <<>> THEN parseFloat(match) ELSE JsInt(0)

\* currentProperties.map(p => p.price).filter(p => p && p > 0), as integers
RECURSIVE PositivePrices(_)
PositivePrices(props) ==
    IF props = <<>> THEN <<>>
    ELSE LET p == Head(props).price
         IN  (IF Truthy(p) /\ JsGt(p, JsInt(0)) THEN <<p.n>> ELSE <<>>)
             \o PositivePrices(Tail(props))

PriceFactorInclusive(property, props) ==
    LET medianPrice == calculateMedian(PositivePrices(props))
        priceRatio  == JsDiv(property.price, medianPrice)
    IN  IF ~JsGt(priceRatio, JsNum(8, 10)) THEN JsInt(30)
        ELSE IF ~JsGt(priceRatio, JsInt(1)) THEN JsInt(25)
        ELSE IF ~JsGt(priceRatio, JsNum(12, 10)) THEN JsInt(15)
        ELSE JsInt(5)

\* Price competitiveness (30 points max)
PriceFactor(property, props) ==
    LET medianPrice == calculateMedian(PositivePrices(props))
        priceRatio  == JsDiv(property.price, medianPrice)
    IN  IF JsLt(priceRatio, JsNum(8, 10)) THEN JsInt(30)
        ELSE IF JsLt(priceRatio, JsInt(1)) THEN JsInt(25)
        ELSE IF JsLt(priceRatio, JsNum(12, 10)) THEN JsInt(15)
        ELSE JsInt(5)

\* Land size value (20 points max)
LandFactor(property) ==
    LET landSize == parseLandSize(property.attributes.land_size)
    IN  IF JsGt(landSize, JsInt(700)) THEN JsInt(20)
        ELSE IF JsGt(landSize, JsInt(600)) THEN JsInt(15)
        ELSE IF JsGt(landSize, JsInt(500)) THEN JsInt(10)
        ELSE JsInt(5)

\* Property features (25 points max)
FeaturesFactorUncapped(property) ==
    LET bedrooms  == OrZero(property.attributes.bedrooms)
        bathrooms == OrZero(property.attributes.bathrooms)
        garages   == OrZero(property.attributes.garage_spaces)
    IN  JsAdd(JsAdd(JsMul(bedrooms, JsInt(5)), JsMul(bathrooms, JsInt(4))),
              JsMul(garages, JsInt(3)))

FeaturesFactor(property) ==
    LET bedrooms  == OrZero(property.attributes.bedrooms)
        bathrooms == OrZero(property.attributes.bathrooms)
        garages   == OrZero(property.attributes.garage_spaces)
    IN  JsMin(JsInt(25),
              JsAdd(JsAdd(JsMul(bedrooms, JsInt(5)), JsMul(bathrooms, JsInt(4))),
                    JsMul(garages, JsInt(3))))

\* Property type preference (15 points max)
TypeFactor(property) ==
    IF property.property_type = "House" THEN JsInt(15)
    ELSE IF property.property_type = "Townhouse" THEN JsInt(10)
    ELSE JsInt(5)

RecencyFactorInclusive(property, clock) ==
    LET listingDate      == IF property.listing_date = Undefined THEN NaN
                            ELSE property.listing_date
        daysSinceListing == JsDiv(JsSub(JsInt(clock), listingDate), JsInt(HoursPerDay))
    IN  IF ~JsGt(daysSinceListing, JsInt(7)) THEN JsInt(10)
        ELSE IF ~JsGt(daysSinceListing, JsInt(30)) THEN JsInt(7)
        ELSE JsInt(3)

\* Listing recency (10 points max); new Date(undefined) is an invalid date,
\* whose difference from the clock is NaN
RecencyFactor(property, clock) ==
    LET listingDate      == IF property.listing_date = Undefined THEN NaN
                            ELSE property.listing_date
        daysSinceListing == JsDiv(JsSub(JsInt(clock), listingDate), JsInt(HoursPerDay))
    IN  IF JsLt(daysSinceListing, JsInt(7)) THEN JsInt(10)
        ELSE IF JsLt(daysSinceListing, JsInt(30)) THEN JsInt(7)
        ELSE JsInt(3)

\* Calculate comprehensive investment score for each property
calculateInvestmentScore(property, props, clock) ==
    LET Total(factors) ==
            JsAdd(JsAdd(JsAdd(JsAdd(JsAdd(JsInt(0), factors.price), factors.land),
                              factors.features), factors.type), factors.recency)
    IN  Only({[score |-> JsRound(Total(factors)), factors |-> factors] :
                 factors \in {[price    |-> PriceFactor(property, props),
                               land     |-> LandFactor(property),
                               features |-> FeaturesFactor(property),
                               type     |-> TypeFactor(property),
                               recency  |-> RecencyFactor(property, clock)]}})

(***************************************************************************)
(* The Technical Insights panels.  A rendered card names the record it     *)
(* shows by `index`, the record's position in currentProperties.           *)
(***************************************************************************)
Take(s, n) == SubSeq(s, 1, IF n < Len(s) THEN n ELSE Len(s))

\* currentProperties.map(prop => ({...prop, investmentScore: ...}))
ScoredProperties(props, clock) ==
    [i \in DOMAIN props |->
        [index |-> i, investmentScore |-> calculateInvestmentScore(props[i], props, clock)]]

RECURSIVE InsertByScoreBeforeTies(_, _)
InsertByScoreBeforeTies(x, sorted) ==
    IF sorted = <<>> THEN <<x>>
    ELSE IF ~JsGt(Head(sorted).investmentScore.score, x.investmentScore.score)
         THEN <<x>> \o sorted
         ELSE <<Head(sorted)>> \o InsertByScoreBeforeTies(x, Tail(sorted))

\* x goes before the first element the comparator puts after it
RECURSIVE InsertByScore(_, _)
InsertByScore(x, sorted) ==
    IF sorted = <<>> THEN <<x>>
    ELSE IF JsLt(Head(sorted).investmentScore.score, x.investmentScore.score)
         THEN <<x>> \o sorted
         ELSE <<Head(sorted)>> \o InsertByScore(x, Tail(sorted))

SortByScoreDescUnstable(items) ==
    LET RECURSIVE S(_)
        S(k) == IF k = 0 THEN <<>> ELSE InsertByScoreBeforeTies(items[k], S(k - 1))
    IN  S(Len(items))

\* .sort((a, b) => b.investmentScore.score - a.investmentScore.score):
\* Array.prototype.sort is stable
SortByScoreDesc(items) ==
    LET RECURSIVE S(_)
        S(k) == IF k = 0 THEN <<>> ELSE InsertByScore(items[k], S(k - 1))
    IN  S(Len(items))

\* Generate Investment Opportunity Scores: the six best, the first three
\* with the badge TOP 1, TOP 2, TOP 3 (badge 0 is no badge)
generateInvestmentScores(props, clock) ==
    LET topProperties == Take(SortByScoreDesc(ScoredProperties(props, clock)), 6)
    IN  [i \in DOMAIN topProperties |->
            [index           |-> topProperties[i].index,
             investmentScore |-> topProperties[i].investmentScore,
             badge           |-> IF i - 1 < 3 THEN i ELSE 0]]

\* Generate Top Investment Picks
generateTopPicks(props, clock) ==
    LET topPicks_ == Take(SortByScoreDesc(ScoredProperties(props, clock)), 3)
    IN  [i \in DOMAIN topPicks_ |->
            [index           |-> topPicks_[i].index,
             investmentScore |-> topPicks_[i].investmentScore,
             rank            |-> i]]

\* the positions, in list order, of the records that pass a test
SelectIndices(props, kept) ==
    LET RECURSIVE F(_)
        F(k) == IF k = 0 THEN <<>>
                ELSE F(k - 1) \o (IF k \in kept THEN <<k>> ELSE <<>>)
    IN  F(Len(props))

IsOverpricedInclusive(property, upperFence) ==
    Truthy(property.price) /\ ~JsLt(property.price, upperFence)

\* p.price && p.price < lowerFence
IsUndervalued(property, lowerFence) ==
    Truthy(property.price) /\ JsLt(property.price, lowerFence)

\* p.price && p.price > upperFence
IsOverpriced(property, upperFence) ==
    Truthy(property.price) /\ JsGt(property.price, upperFence)

\* undervalued[0], overpriced[0]: the mutant takes the last match instead
LastMatch(matches) == matches[Len(matches)]

FirstMatch(matches) == matches[1]

\* the cards written to #outlierAnalysis: one per side that has a match, or
\* the 'No statistical outliers detected' paragraph when html === ''
OutlierHtml(undervalued, overpriced) ==
    LET html == (IF Len(undervalued) > 0
                 THEN <<[card |-> "undervalued", prop |-> FirstMatch(undervalued)]>>
                 ELSE <<>>)
                \o (IF Len(overpriced) > 0
                    THEN <<[card |-> "overpriced", prop |-> FirstMatch(overpriced)]>>
                    ELSE <<>>)
    IN  IF html = <<>> THEN <<[card |-> "no-outliers", prop |-> 0]>> ELSE html

\* Generate Outlier Detection
generateOutlierDetection(props) ==
    LET prices     == PositivePrices(props)
        mean       == calculateMean(prices)
        q1         == calculatePercentile(prices, 25)
        q3         == calculatePercentile(prices, 75)
        iqr        == JsSub(q3, q1)
        lowerFence == JsSub(q1, JsMul(JsNum(3, 2), iqr))
        upperFence == JsAdd(q3, JsMul(JsNum(3, 2), iqr))
        under      == {k \in DOMAIN props : IsUndervalued(props[k], lowerFence)}
        over       == {k \in DOMAIN props : IsOverpriced(props[k], upperFence)}
    IN  [shown       |-> TRUE,
         mean        |-> mean,
         lowerFence  |-> lowerFence,
         upperFence  |-> upperFence,
         undervalued |-> SelectIndices(props, under),
         overpriced  |-> SelectIndices(props, over),
         html        |-> OutlierHtml(SelectIndices(props, under),
                                     SelectIndices(props, over))]

\* the figures of the cards: (1 - prop.price / mean) * 100 under 'Below
\* Market', (prop.price / mean - 1) * 100 under 'Above Market'
BelowMarket(prop, mean) == JsMul(JsSub(JsInt(1), JsDiv(prop.price, mean)), JsInt(100))
AboveMarket(prop, mean) == JsMul(JsSub(JsDiv(prop.price, mean), JsInt(1)), JsInt(100))

\* Statistical Analysis: the price statistics handed to the formatters
generateStatisticalAnalysis(props) ==
    LET prices == PositivePrices(props)
    IN  [shown      |-> TRUE,
         sampleSize |-> Len(props),
         mean       |-> calculateMean(prices),
         stdDev     |-> calculateStdDev(prices),
         median     |-> calculateMedian(prices),
         priceRange |-> JsSub(MathMax(prices), MathMin(prices)),
         cv         |-> CoefficientOfVariation(prices),
         q1         |-> calculatePercentile(prices, 25),
         q3         |-> calculatePercentile(prices, 75),
         iqr        |-> JsSub(calculatePercentile(prices, 75),
                              calculatePercentile(prices, 25)),
         skewness   |-> calculateSkewness(prices)]

(***************************************************************************)
(* The inputs of the statistics helpers.                                   *)
(***************************************************************************)
SampleValues   == {-50, 100, 200, 300, 400}
ExampleSamples == {<<100, 300, 200>>, <<100, 200, 300, 400>>, <<10, 20, 30, 40>>}
Samples        == SeqsUpTo(SampleValues, MaxLen) \cup ExampleSamples
\* the percentiles for which percentile / 100 is exact in binary
Percentiles    == {0, 25, 50, 75, 100}

(***************************************************************************)
(* Investment calculator.  The formulas are modelled in exact arithmetic:  *)
(* the rounding of IEEE-754 products and quotients is not modelled.        *)
(***************************************************************************)
\* Math.pow(base, exponent) for a whole exponent >= 0
RECURSIVE MathPow(_, _)
MathPow(base, exponent) ==
    IF exponent = 0 THEN JsInt(1)
    ELSE JsMul(MathPow(base, exponent - 1), base)

MonthsPerYear == 12

\* the mutant enters the exponential formula at a rate of 0 too
MonthlyPaymentUnguarded(loanAmount, monthlyRate, numPayments) ==
    LET growth == MathPow(JsAdd(JsInt(1), monthlyRate), numPayments)
    IN  JsDiv(JsMul(loanAmount, JsMul(monthlyRate, growth)),
              JsSub(growth, JsInt(1)))

\* M = P [ i(1 + i)^n ] / [ (1 + i)^n - 1 ], and P / n when the rate is not > 0
MonthlyPayment(loanAmount, monthlyRate, numPayments) ==
    IF JsGt(monthlyRate, JsInt(0))
    THEN LET growth == MathPow(JsAdd(JsInt(1), monthlyRate), numPayments)
         IN  JsDiv(JsMul(loanAmount, JsMul(monthlyRate, growth)),
                   JsSub(growth, JsInt(1)))
    ELSE JsDiv(loanAmount, JsInt(numPayments))

\* calculateMortgage: the four fields read and the four results displayed
calculateMortgage(priceField, depositPercent, ratePercent, termYears) ==
    LET price          == OrZero(priceField)
        depositAmount  == JsDiv(JsMul(price, depositPercent), JsInt(100))
        loanAmount     == JsSub(price, depositAmount)
        monthlyRate    == JsDiv(JsDiv(ratePercent, JsInt(100)), JsInt(MonthsPerYear))
        numPayments    == termYears * MonthsPerYear
        monthlyPayment == MonthlyPayment(loanAmount, monthlyRate, numPayments)
        totalRepayment == JsMul(monthlyPayment, JsInt(numPayments))
        totalInterest  == JsSub(totalRepayment, loanAmount)
    IN  [calculated     |-> TRUE,
         mortgagePrice  |-> priceField,
         mortgageDeposit |-> depositPercent,
         mortgageRate   |-> ratePercent,
         mortgageTerm   |-> termYears,
         monthlyPayment |-> monthlyPayment,
         loanAmount     |-> loanAmount,
         totalInterest  |-> totalInterest,
         totalRepayment |-> totalRepayment]

NoMortgage == [calculated |-> FALSE]

WeeksPerYear == 52
QuartersPerYear == 4

\* the mutant adds the class of the new result without removing the old one
StatusClassesKept(classList, annualCashFlow) ==
    classList
        \cup (IF JsGt(annualCashFlow, JsInt(0)) THEN {"positive"}
              ELSE IF JsLt(annualCashFlow, JsInt(0)) THEN {"negative"}
              ELSE {})

\* statusEl.classList.remove('positive', 'negative'), then the class added
StatusClasses(classList, annualCashFlow) ==
    (classList \ {"positive", "negative"})
        \cup (IF JsGt(annualCashFlow, JsInt(0)) THEN {"positive"}
              ELSE IF JsLt(annualCashFlow, JsInt(0)) THEN {"negative"}
              ELSE {})

\* the sentence written into the status indicator
StatusMessage(annualCashFlow) ==
    IF JsGt(annualCashFlow, JsInt(0)) THEN "Cashflow Positive"
    ELSE IF JsLt(annualCashFlow, JsInt(0)) THEN "Cashflow Negative"
    ELSE "Breakeven"

\* calculateCashFlow: `fields` are the seven values read, `classList` the
\* classes of the status indicator before the call
calculateCashFlow(fields, classList) ==
    LET weeklyRent        == OrZero(fields.weeklyRent)
        mortgagePayment   == OrZero(fields.mortgagePayment)
        councilRates      == OrZero(fields.councilRates)
        strataFees        == OrZero(fields.strataFees)
        insurance         == OrZero(fields.insurance)
        maintenance       == OrZero(fields.maintenance)
        managementPercent == JsDiv(fields.managementFee, JsInt(100))
        annualRent        == JsMul(weeklyRent, JsInt(WeeksPerYear))
        managementFees    == JsMul(annualRent, managementPercent)
        annualMortgage    == JsMul(mortgagePayment, JsInt(MonthsPerYear))
        annualStrata      == JsMul(strataFees, JsInt(QuartersPerYear))
        annualIncome      == annualRent
        annualExpenses    ==
            JsAdd(JsAdd(JsAdd(JsAdd(JsAdd(annualMortgage, councilRates), annualStrata),
                              insurance), maintenance), managementFees)
        annualCashFlow    == JsSub(annualIncome, annualExpenses)
        weeklyCashFlow    == JsDiv(annualCashFlow, JsInt(WeeksPerYear))
    IN  [calculated     |-> TRUE,
         fields         |-> fields,
         annualIncome   |-> annualIncome,
         annualExpenses |-> annualExpenses,
         annualCashFlow |-> annualCashFlow,
         weeklyCashFlow |-> weeklyCashFlow,
         classList      |-> StatusClasses(classList, annualCashFlow),
         status         |-> StatusMessage(annualCashFlow)]

NoCashFlow == [calculated |-> FALSE, classList |-> {}]

\* ((1+r)^n - 1) / (r (1+r)^n) at r = 0.065 / 12 and n = 30 * 12: the loan that
\* one unit a month repays, 158.2108..., kept to two decimals
MaxLoanFactor == JsNum(15821, 100)

VerdictClassNames == {"can-afford", "cannot-afford", "marginal"}

\* the class added to the verdict element
VerdictClass(targetPrice, maxPropertyPrice) ==
    IF ~JsGt(targetPrice, JsMul(maxPropertyPrice, JsNum(8, 10))) THEN "can-afford"
    ELSE IF ~JsGt(targetPrice, maxPropertyPrice) THEN "marginal"
    ELSE "cannot-afford"

\* calculateAffordability: `fields` are the five values read, `classList` the
\* classes of the verdict element before the call
calculateAffordability(fields, classList) ==
    LET householdIncome  == OrZero(fields.householdIncome)
        availableDeposit == OrZero(fields.availableDeposit)
        monthlyExpenses  == OrZero(fields.monthlyExpenses)
        monthlyDebts     == OrZero(fields.monthlyDebts)
        targetPrice      == OrZero(fields.targetPrice)
        annualRepaymentCapacity  == JsMul(householdIncome, JsNum(3, 10))
        monthlyRepaymentCapacity == JsDiv(annualRepaymentCapacity, JsInt(MonthsPerYear))
        availableForLoan ==
            JsSub(JsSub(monthlyRepaymentCapacity, monthlyDebts),
                  JsMul(monthlyExpenses, JsNum(1, 2)))
        maxBorrowing     == JsMul(availableForLoan, MaxLoanFactor)
        maxPropertyPrice == JsAdd(maxBorrowing, availableDeposit)
        requiredLoan     == JsSub(targetPrice, availableDeposit)
        monthlyCommitment ==
            IF JsGt(requiredLoan, JsInt(0)) THEN JsDiv(requiredLoan, MaxLoanFactor)
            ELSE JsInt(0)
        debtToIncome ==
            JsMul(JsDiv(JsMul(JsAdd(monthlyCommitment, monthlyDebts), JsInt(MonthsPerYear)),
                        householdIncome),
                  JsInt(100))
        class == VerdictClass(targetPrice, maxPropertyPrice)
    IN  [calculated        |-> TRUE,
         fields            |-> fields,
         maxBorrowing      |-> JsMax(JsInt(0), maxBorrowing),
         maxProperty       |-> JsMax(JsInt(0), maxPropertyPrice),
         maxPropertyPrice  |-> maxPropertyPrice,
         monthlyCommitment |-> monthlyCommitment,
         debtToIncome      |-> debtToIncome,
         classList         |-> (classList \ VerdictClassNames) \cup {class},
         verdict           |-> class,
         shortfall         |-> IF class = "cannot-afford"
                               THEN JsSub(targetPrice, maxPropertyPrice)
                               ELSE Undefined]

NoAffordability == [calculated |-> FALSE, classList |-> {}]

\* the grid before the first search, and the timeline before it is generated:
\* let timelineData = [], timelineDateRange = { min: null, max: null },
\* timelineSliderValue = 100
NoGrid == [sortBy |-> "none", cards |-> <<>>]
\* #timelineSlider stands at `slider`, #timelineActiveCount reads `activeCount`,
\* #playTimelineBtn reads `playBtn`; let timelineAnimationInterval = null (0).
\* `intervals` holds the intervals that setInterval started and clearInterval
\* has not cleared, each with the currentValue of its callback
NoTimeline ==
    [generated |-> FALSE, timelineData |-> <<>>, timelineSliderValue |-> 100,
     grid |-> <<>>, slider |-> 100, activeCount |-> 0, playBtn |-> "Play",
     timelineAnimationInterval |-> 0, intervals |-> <<>>]

\* Playground global state
NoCard == [propertyIndex |-> -1, attached |-> FALSE]

InitSwipe ==
    /\ swipeStack = <<>>
    /\ currentSwipeIndex = 0
    /\ likedProperties = <<>>
    /\ passedProperties = <<>>
    /\ swipeHistory = <<>>
    /\ currentCard = NoCard
    /\ swipeStackEl = "placeholder"
    /\ advanceTimers = 0

\* Global map variables.  The two sliders are range inputs: before the first
\* setup they stand at the ends of the default filter range.
DefaultMinPrice == 0
DefaultMaxPrice == 5000000
PropertyTypes == {"House", "Unit", "Townhouse", "Land"}
RangeInput(min, max, value) == [min |-> min, max |-> max, value |-> value]

\* let heatMapLayer = null, and L.heatLayer(heatData, ...)
NoLayer == [null |-> TRUE, heatData |-> <<>>]
heatLayer(heatData) == [null |-> FALSE, heatData |-> heatData]

InitMap ==
    /\ comparisonProperties = <<>>
    /\ heatMapLayer = NoLayer
    /\ isHeatMapVisible = FALSE
    /\ propertyMap = FALSE
    /\ mapMarkers = <<>>
    /\ shownMarkers = {}
    /\ currentMapFilters = [minPrice |-> JsInt(DefaultMinPrice),
                            maxPrice |-> JsInt(DefaultMaxPrice),
                            propertyTypes |-> PropertyTypes]
    /\ priceSliders = [min |-> RangeInput(DefaultMinPrice, DefaultMaxPrice, DefaultMinPrice),
                       max |-> RangeInput(DefaultMinPrice, DefaultMaxPrice, DefaultMaxPrice)]
    /\ visiblePropertyCount = 0

\* the page before the first search, and the results of one search displayed
Hidden == [display |-> "none", message |-> "none"]
DefaultSuburb == "Belmont North"
Data(properties) == [null |-> FALSE, results |-> properties]
NoData == [null |-> TRUE, results |-> <<>>]

InitSearch ==
    /\ searches = <<>>
    /\ currentSuburb = ""
    /\ lastFetchedData = NoData
    /\ suburbNameSpan = ""
    /\ resultsSection = "none"
    /\ loadingDiv = "none"
    /\ errorDiv = Hidden
    /\ searchBtn = [disabled |-> FALSE]

Searched(properties) ==
    /\ searches = <<>>
    /\ currentSuburb = DefaultSuburb
    /\ lastFetchedData = Data(properties)
    /\ suburbNameSpan = DefaultSuburb
    /\ resultsSection = "block"
    /\ loadingDiv = "none"
    /\ errorDiv = Hidden
    /\ searchBtn = [disabled |-> FALSE]

InitUi ==
    /\ mortgage = NoMortgage
    /\ cashflow = NoCashFlow
    /\ affordability = NoAffordability
    /\ propertiesGrid = NoGrid
    /\ valueAnalysis = [shown |-> FALSE]
    /\ timeline = NoTimeline
    /\ InitSwipe
    /\ InitMap

NoProperties == <<>>

InitApp ==
    /\ InitSearch
    /\ currentProperties = NoProperties
    /\ now = 0
    /\ investmentScores = <<>>
    /\ topPicks = <<>>
    /\ outlierAnalysis = [shown |-> FALSE]
    /\ statisticalAnalysis = [shown |-> FALSE]

appVars == <<currentProperties, now, investmentScores, topPicks, outlierAnalysis,
             statisticalAnalysis>>

(***************************************************************************)
(* SpecStats: the statistics helpers applied to every sample.              *)
(***************************************************************************)
InitStats ==
    /\ InitUi
    /\ InitApp
    /\ fn = "none"
    /\ arg \in {[arr |-> s, p |-> p] : s \in Samples, p \in Percentiles}
    /\ ret = NaN

CallCalculateMedian ==
    /\ fn' = "calculateMedian"
    /\ ret' = calculateMedian(arg.arr)
    /\ UNCHANGED uiVars
    /\ UNCHANGED <<arg, appVars>>

CallCalculatePercentile ==
    /\ fn' = "calculatePercentile"
    /\ ret' = calculatePercentile(arg.arr, arg.p)
    /\ UNCHANGED uiVars
    /\ UNCHANGED <<arg, appVars>>

NextStats == CallCalculateMedian \/ CallCalculatePercentile

SpecStats == InitStats /\ [][NextStats]_vars

(***************************************************************************)
(* Applying parseLandSize and calculateInvestmentScore.                    *)
(***************************************************************************)
CallParseLandSize(i) ==
    /\ i \in DOMAIN currentProperties
    /\ fn' = "parseLandSize"
    /\ arg' = [i |-> i]
    /\ ret' = parseLandSize(currentProperties[i].attributes.land_size)
    /\ UNCHANGED uiVars
    /\ UNCHANGED appVars

CallCalculateInvestmentScore(i) ==
    /\ i \in DOMAIN currentProperties
    /\ fn' = "calculateInvestmentScore"
    /\ arg' = [i |-> i]
    /\ ret' = calculateInvestmentScore(currentProperties[i], currentProperties, now)
    /\ UNCHANGED uiVars
    /\ UNCHANGED appVars

Property(price, land, beds, baths, garages, type, date) ==
    [price         |-> price,
     attributes    |-> [bedrooms |-> beds, bathrooms |-> baths,
                        garage_spaces |-> garages, land_size |-> land],
     property_type |-> type,
     listing_date  |-> date]

(***************************************************************************)
(* SpecLand: every land-size attribute, parsed and scored.                 *)
(***************************************************************************)
LandChars   == {"0", "5", "6", "7", ".", "m"}
LandNumbers == {0, 450, 500, 501, 600, 601, 700, 701}
LandSizes   == {NoLand} \cup {LandNum(n) : n \in LandNumbers}
               \cup {LandStr(cs) : cs \in SeqsUpTo(LandChars, MaxStr)}

InitLand ==
    /\ InitUi
    /\ \E land \in LandSizes :
           currentProperties =
               <<Property(JsInt(100), land, JsInt(3), JsInt(1), Undefined, "House", JsInt(0))>>
    /\ Searched(currentProperties)
    /\ now = 0
    /\ investmentScores = <<>>
    /\ topPicks = <<>>
    /\ outlierAnalysis = [shown |-> FALSE]
    /\ statisticalAnalysis = [shown |-> FALSE]
    /\ fn = "none"
    /\ arg = [i |-> 0]
    /\ ret = NaN

NextLand ==
    \E i \in 1..(MaxOthers + 1) :
        CallParseLandSize(i) \/ CallCalculateInvestmentScore(i)

SpecLand == InitLand /\ [][NextLand]_vars

(***************************************************************************)
(* SpecScore: calculateInvestmentScore over result sets whose first record *)
(* takes every combination of attributes.                                  *)
(***************************************************************************)
ScorePrices == {Undefined, JsInt(0), JsInt(60), JsInt(100), JsInt(150)}
ScoreLands  == {NoLand, LandStr(<<"6", "5", "0", "m">>), LandNum(750)}
ScoreTypes  == {"House", "Townhouse", "Unit"}
\* listed 6 days 23 hours, 29 days 23 hours and 83 days before the clock starts
ScoreDates  == {Undefined, JsInt(1 - 7 * HoursPerDay), JsInt(1 - 30 * HoursPerDay),
                JsInt(-2000)}
\* bedrooms, bathrooms, garage spaces
ScoreCounts == {<<Undefined, Undefined, Undefined>>, <<JsInt(3), Undefined, Undefined>>,
                <<Undefined, JsInt(2), JsInt(1)>>, <<JsInt(3), JsInt(2), JsInt(2)>>}
ScoreRecords ==
    {Property(p, l, c[1], c[2], c[3], t, d) :
        p \in ScorePrices, l \in ScoreLands, c \in ScoreCounts,
        t \in ScoreTypes, d \in ScoreDates}
OtherRecords ==
    {Property(p, NoLand, JsInt(2), JsInt(1), Undefined, "Unit", JsInt(-2000)) :
        p \in {JsInt(0), JsInt(60), JsInt(150)}}
ScoreResultSets ==
    {<<r>> \o others : r \in ScoreRecords, others \in SeqsUpTo(OtherRecords, MaxOthers)}

InitScore ==
    /\ InitUi
    /\ currentProperties \in ScoreResultSets
    /\ Searched(currentProperties)
    /\ now \in 0..MaxClock
    /\ investmentScores = <<>>
    /\ topPicks = <<>>
    /\ outlierAnalysis = [shown |-> FALSE]
    /\ statisticalAnalysis = [shown |-> FALSE]
    /\ fn = "none"
    /\ arg = [i |-> 0]
    /\ ret = NaN

NextScore == \E i \in 1..(MaxOthers + 1) : CallCalculateInvestmentScore(i)

SpecScore == InitScore /\ [][NextScore]_vars

(***************************************************************************)
(* The handlers of the application.                                        *)
(***************************************************************************)
\* An array is an object: `ref` names the object, `items` is what it holds.
\* [...array] and .map / .filter make a new object, .sort works in place on
\* the object it is called on.
ArrayRef(name, items) == [ref |-> name, items |-> items]

\* the mutant sorts the array itself
SpreadAlias(array) == array

\* [...array]
Spread(array) == [ref |-> "copy", items |-> array.items]

\* array.map(...) and array.filter(...) holding `items`
ArrayMap(array, items) == [ref |-> "new", items |-> items]

\* what the global array `name` holds once `array` was sorted in place
Held(name, items, array) == IF array.ref = name THEN array.items ELSE items

\* Array.prototype.sort with the comparator keys[a] - keys[b]: the indices of
\* `keys` in ascending order of key, equal keys in their original order
RECURSIVE InsertByKey(_, _, _)
InsertByKey(i, order, keys) ==
    IF order = <<>> THEN <<i>>
    ELSE IF JsLt(keys[i], keys[Head(order)]) THEN <<i>> \o order
    ELSE <<Head(order)>> \o InsertByKey(i, Tail(order), keys)

RECURSIVE SortOrder(_, _)
SortOrder(keys, k) ==
    IF k = 0 THEN <<>> ELSE InsertByKey(k, SortOrder(keys, k - 1), keys)

Permute(items, order) == [k \in DOMAIN order |-> items[order[k]]]

\* array.sort(comparator), in place
ArraySort(array, keys) ==
    [array EXCEPT !.items = Permute(array.items, SortOrder(keys, Len(keys)))]

SortSelectValues == {"default", "price-high", "price-low", "bedrooms", "newest"}

\* the key of a record under each choice of #sortSelect (descending orders
\* compare b with a: the key is negated)
SortKey(sortBy, property) ==
    CASE sortBy = "price-high" -> JsNeg(OrZero(property.price))
      [] sortBy = "price-low"  -> OrZero(property.price)
      [] sortBy = "bedrooms"   -> JsNeg(OrZero(property.attributes.bedrooms))
      [] sortBy = "newest"     -> JsNeg(property.listing_date)
      [] OTHER                 -> JsInt(0)

\* Sort properties: the sorted copy handed to displayProperties
sortProperties(sortBy, current) ==
    LET sorted == Spread(current)
    IN  IF sortBy = "default" THEN sorted
        ELSE ArraySort(sorted, [i \in DOMAIN sorted.items |-> SortKey(sortBy, sorted.items[i])])

SortPropertiesSelect(sortBy) ==
    LET sorted == sortProperties(sortBy, ArrayRef("currentProperties", currentProperties))
    IN  /\ propertiesGrid' = [sortBy |-> sortBy, cards |-> sorted.items]
        /\ currentProperties' = Held("currentProperties", currentProperties, sorted)
        /\ UNCHANGED <<panelVars, calcVars, valueAnalysis, timeline>>
        /\ UNCHANGED <<now, investmentScores, topPicks, outlierAnalysis,
                       statisticalAnalysis, fn, arg, ret>>

\* displayResults(suburb, data): the name is shown and stored, and an empty
\* result list returns before the list is stored
displayResults(suburb, data) ==
    /\ suburbNameSpan' = suburb
    /\ currentSuburb' = suburb
    /\ currentProperties' = IF Len(data.results) = 0 THEN currentProperties
                            ELSE data.results
    /\ propertiesGrid' = [sortBy |-> "none", cards |-> data.results]
    /\ resultsSection' = "block"

\* the results of a search for the default suburb are displayed
DisplayResults(properties) ==
    /\ displayResults(DefaultSuburb, Data(properties))
    /\ UNCHANGED <<boardVars, requestVars, calcVars, valueAnalysis, timeline>>
    /\ UNCHANGED <<now, investmentScores, topPicks, outlierAnalysis, statisticalAnalysis,
                   fn, arg, ret>>

Tick ==
    /\ now < MaxClock
    /\ now' = now + 1
    /\ UNCHANGED uiVars
    /\ UNCHANGED <<currentProperties, investmentScores, topPicks, outlierAnalysis,
                   statisticalAnalysis, fn, arg, ret>>

\* Generate Value per Square Meter Analysis: the records with a price and a
\* land size, by ascending price per square metre
generateValueAnalysis(props) ==
    LET kept   == {i \in DOMAIN props :
                      Truthy(props[i].price) /\ ~Falsy(props[i].attributes.land_size)}
        PerSqm(i, landSize) ==
            [index       |-> i,
             landSize    |-> landSize,
             pricePerSqm |-> IF JsGt(landSize, JsInt(0))
                             THEN JsDiv(props[i].price, landSize)
                             ELSE JsInt(0)]
        Mapped(indices) ==
            [k \in DOMAIN indices |->
                PerSqm(indices[k], parseLandSize(props[indices[k]].attributes.land_size))]
        Valued(mapped) ==
            Permute(mapped,
                    SelectIndices(mapped, {k \in DOMAIN mapped :
                                              JsGt(mapped[k].pricePerSqm, JsInt(0))}))
        Sorted(withValue) ==
            ArraySort(ArrayMap(ArrayRef("currentProperties", props), withValue),
                      [k \in DOMAIN withValue |-> withValue[k].pricePerSqm])
        Panel(propertiesWithValue, sorted) ==
            IF Len(sorted) = 0
            THEN [shown |-> TRUE, sufficient |-> FALSE, array |-> propertiesWithValue]
            ELSE [shown          |-> TRUE,
                  sufficient     |-> TRUE,
                  array          |-> propertiesWithValue,
                  avgPricePerSqm |->
                      JsDiv(SumOf([k \in DOMAIN sorted |-> sorted[k].pricePerSqm]),
                            JsInt(Len(sorted))),
                  bestValue      |-> sorted[1].index,
                  worstValue     |-> sorted[Len(sorted)].index]
    IN  Only({Panel(propertiesWithValue, propertiesWithValue.items) :
                 propertiesWithValue \in
                     {Sorted(withValue) :
                         withValue \in
                             {Valued(mapped) :
                                 mapped \in {Mapped(SelectIndices(props, kept))}}}})

\* the arrays that the ranking panels sort: currentProperties.map(...)
ScoredArray(props, clock) ==
    ArrayMap(ArrayRef("currentProperties", props),
             SortByScoreDesc(ScoredProperties(props, clock)))

\* switchTab('technical-insights'): generateTechnicalInsights renders every
\* panel from currentProperties within one handler
SwitchTabTechnicalInsights ==
    /\ Len(currentProperties) > 0
    /\ investmentScores' = generateInvestmentScores(currentProperties, now)
    /\ valueAnalysis' = generateValueAnalysis(currentProperties)
    /\ outlierAnalysis' = generateOutlierDetection(currentProperties)
    /\ topPicks' = generateTopPicks(currentProperties, now)
    /\ statisticalAnalysis' = generateStatisticalAnalysis(currentProperties)
    /\ currentProperties' =
           Held("currentProperties",
                Held("currentProperties", currentProperties,
                     ScoredArray(currentProperties, now)),
                generateValueAnalysis(currentProperties).array)
    /\ UNCHANGED <<panelVars, calcVars, propertiesGrid, timeline>>
    /\ UNCHANGED <<now, fn, arg, ret>>

TimelineSortValues == {"date-new", "date-old", "price-high", "price-low"}

\* the items of timelineData listed on or before the date of the slider: the
\* range is min .. max of the listing dates, `percentage` of it is shown
FilterByPercentage(data, percentage) ==
    LET min == data[1].listingDate
        max == data[Len(data)].listingDate
        totalDays     == JsDiv(JsSub(max, min), JsInt(HoursPerDay))
        daysFromStart == JsDiv(JsMul(totalDays, JsInt(percentage)), JsInt(100))
        currentDate   == JsAdd(min, JsMul(daysFromStart, JsInt(HoursPerDay)))
        kept == {k \in DOMAIN data : JsLe(data[k].listingDate, currentDate)}
    IN  Permute(data, SelectIndices(data, kept))

\* Update Timeline By Slider: the count and the grid of the filtered items
updateTimelineBySlider(old, percentage) ==
    Only({[old EXCEPT !.activeCount = Len(filteredData), !.grid = filteredData] :
             filteredData \in {FilterByPercentage(old.timelineData, percentage)}})

\* Generate Timeline: timelineData is currentProperties mapped and sorted by
\* listing date; the slider is put to 100, the global timelineSliderValue is
\* left as it is, and all the properties are shown
generateTimeline(props, clock, old) ==
    LET mapped == [i \in DOMAIN props |->
                      [property     |-> props[i],
                       listingDate  |-> props[i].listing_date,
                       daysOnMarket |->
                           LET days == JsDiv(JsSub(JsInt(clock), props[i].listing_date),
                                             JsInt(HoursPerDay))
                           IN  IF IsNum(days) THEN JsInt(JsFloor(days)) ELSE NaN]]
        data == ArraySort(ArrayMap(ArrayRef("currentProperties", props), mapped),
                          [i \in DOMAIN mapped |-> mapped[i].listingDate])
    IN  [old EXCEPT
            !.generated    = TRUE,
            !.timelineData = data.items,
            !.slider       = 100,
            !.activeCount  = Len(FilterByPercentage(data.items, 100)),
            !.grid         = data.items]

SwitchPlaygroundFeatureTimeline ==
    /\ Len(currentProperties) > 0
    /\ timeline' = generateTimeline(currentProperties, now, timeline)
    /\ UNCHANGED <<panelVars, calcVars, propertiesGrid, valueAnalysis>>
    /\ UNCHANGED <<currentProperties, now, investmentScores, topPicks, outlierAnalysis,
                   statisticalAnalysis, fn, arg, ret>>

\* the key of an item of timelineData under each choice of #timelineSortSelect
TimelineSortKey(sortValue, item) ==
    CASE sortValue = "date-new"   -> JsNeg(item.listingDate)
      [] sortValue = "date-old"   -> item.listingDate
      [] sortValue = "price-high" -> JsNeg(OrZero(item.property.price))
      [] sortValue = "price-low"  -> OrZero(item.property.price)
      [] OTHER                    -> JsInt(0)

\* Sort Timeline Properties: a copy of timelineData, filtered by the slider
\* value last put in by hand, then sorted
sortTimelineProperties(sortValue, data, timelineSliderValue) ==
    LET sortedData == Spread(data)
        filtered   == ArrayMap(sortedData,
                               FilterByPercentage(sortedData.items, timelineSliderValue))
    IN  ArraySort(filtered,
                  [k \in DOMAIN filtered.items |->
                      TimelineSortKey(sortValue, filtered.items[k])])

SortTimelineSelect(sortValue) ==
    /\ timeline.generated
    /\ LET sortedData == sortTimelineProperties(sortValue,
                             ArrayRef("timelineData", timeline.timelineData),
                             timeline.timelineSliderValue)
       IN  timeline' = [timeline EXCEPT
                           !.timelineData = Held("timelineData", @, sortedData),
                           !.grid = sortedData.items]
    /\ UNCHANGED <<panelVars, calcVars, propertiesGrid, valueAnalysis>>
    /\ UNCHANGED <<currentProperties, now, investmentScores, topPicks, outlierAnalysis,
                   statisticalAnalysis, fn, arg, ret>>

\* the 'input' listener of #timelineSlider
TimelineSliderInput(percentage) ==
    /\ timeline.generated
    /\ timeline' = updateTimelineBySlider(
                        [timeline EXCEPT !.slider = percentage,
                                         !.timelineSliderValue = percentage],
                        percentage)
    /\ UNCHANGED <<panelVars, calcVars, propertiesGrid, valueAnalysis>>
    /\ UNCHANGED <<currentProperties, now, investmentScores, topPicks, outlierAnalysis,
                   statisticalAnalysis, fn, arg, ret>>

(***************************************************************************)
(* Timeline playback.  setInterval hands out a handle no active interval   *)
(* has; the callback of an interval keeps its own currentValue.            *)
(***************************************************************************)
TicksPerRun == 100    \* the slider runs from 0 to 100

NewHandle(intervals) ==
    CHOOSE id \in 1..(Len(intervals) + 1) : \A k \in DOMAIN intervals : intervals[k].id # id

\* clearInterval(handle); clearInterval(null) clears nothing
clearInterval(intervals, handle) ==
    Permute(intervals,
            SelectIndices(intervals, {k \in DOMAIN intervals : intervals[k].id # handle}))

setInterval(intervals, currentValue) ==
    Append(intervals, [id |-> NewHandle(intervals), currentValue |-> currentValue])

\* Play Timeline Animation: the click on #playTimelineBtn stops the running
\* animation, or starts one from the slider (from 0 when the slider is at 100)
playTimeline(old) ==
    IF old.timelineAnimationInterval # 0
    THEN [old EXCEPT
             !.intervals = clearInterval(@, old.timelineAnimationInterval),
             !.timelineAnimationInterval = 0,
             !.playBtn = "Play"]
    ELSE [old EXCEPT
             !.playBtn = "Pause",
             !.intervals = setInterval(@, IF old.slider >= TicksPerRun THEN 0
                                          ELSE old.slider),
             !.timelineAnimationInterval = NewHandle(old.intervals)]

\* the callback of interval k, every 100 ms
intervalCallback(old, k) ==
    LET currentValue == old.intervals[k].currentValue + 1
        counted == [old EXCEPT !.intervals[k].currentValue = currentValue]
    IN  IF currentValue > TicksPerRun
        THEN [counted EXCEPT
                 !.intervals = clearInterval(@, old.timelineAnimationInterval),
                 !.timelineAnimationInterval = 0,
                 !.playBtn = "Play"]
        ELSE updateTimelineBySlider(
                 [counted EXCEPT !.slider = currentValue,
                                 !.timelineSliderValue = currentValue],
                 currentValue)

\* Reset Timeline
resetTimeline(old) ==
    LET stopped == IF old.timelineAnimationInterval # 0
                   THEN [old EXCEPT
                            !.intervals = clearInterval(@, old.timelineAnimationInterval),
                            !.timelineAnimationInterval = 0,
                            !.playBtn = "Play"]
                   ELSE old
        atEnd   == [stopped EXCEPT !.slider = 100, !.timelineSliderValue = 100]
    IN  updateTimelineBySlider(atEnd, 100)

timelineFrame ==
    /\ UNCHANGED <<panelVars, calcVars, propertiesGrid, valueAnalysis>>
    /\ UNCHANGED <<currentProperties, now, investmentScores, topPicks, outlierAnalysis,
                   statisticalAnalysis, fn, arg, ret>>

\* the buttons of the timeline panel, once the timeline is there
PlayTimeline ==
    /\ timeline.generated
    /\ timeline' = playTimeline(timeline)
    /\ timelineFrame

TimelineTick(k) ==
    /\ k \in DOMAIN timeline.intervals
    /\ timeline' = intervalCallback(timeline, k)
    /\ timelineFrame

ResetTimeline ==
    /\ timeline.generated
    /\ timeline' = resetTimeline(timeline)
    /\ timelineFrame

(***************************************************************************)
(* SpecInsights: the Technical Insights tab opened on every result set.    *)
(***************************************************************************)
Priced(p) == Property(p, NoLand, JsInt(3), JsInt(1), Undefined, "House", JsInt(-2000))

InsightPrices == {Undefined, JsInt(0), JsInt(60), JsInt(100), JsInt(150)}
ExamplePrices == <<100, 102, 98, 101, 99, 500>>
ExampleResultSet == [i \in DOMAIN ExamplePrices |-> Priced(JsInt(ExamplePrices[i]))]

RankRecords ==
    {Property(JsInt(100), LandNum(750), JsInt(3), JsInt(2), JsInt(2), "House",
              JsInt(1 - 7 * HoursPerDay)),
     Property(JsInt(100), NoLand, Undefined, Undefined, Undefined, "Unit", JsInt(-2000)),
     Property(JsInt(150), LandStr(<<"6", "5", "0", "m">>), JsInt(3), Undefined, Undefined,
              "Townhouse", JsInt(1 - 30 * HoursPerDay))}

\* two of the records, for the result sets longer than the six cards shown
TopRecords == {r \in RankRecords : r.property_type # "Unit"}

\* result sets with two outliers on a side, the first one not the most extreme
OutlierPrices ==
    {<<10, 10, 2, 10, 1, 10, 10, 10>>,
     <<10, 10, 30, 10, 50, 10, 10, 10>>,
     <<10, 2, 30, 10, 1, 50, 10, 10, 10>>}
OutlierResultSets ==
    {[i \in DOMAIN ps |-> Priced(JsInt(ps[i]))] : ps \in OutlierPrices}

InsightResultSets ==
    SeqsUpTo({Priced(p) : p \in InsightPrices}, MaxProps)
        \cup {<<Priced(JsInt(0))>> \o s :
                  s \in SeqsUpTo({Priced(p) : p \in InsightPrices \ {Undefined, JsInt(0)}},
                                 MaxProps)}
        \cup {ExampleResultSet}
        \cup OutlierResultSets
        \cup SeqsUpTo(RankRecords, MaxProps)
        \cup SeqsUpTo(TopRecords, MaxRank)

InitInsights ==
    /\ InitUi
    /\ currentProperties \in InsightResultSets
    /\ Searched(currentProperties)
    /\ now \in 0..MaxClock
    /\ investmentScores = <<>>
    /\ topPicks = <<>>
    /\ outlierAnalysis = [shown |-> FALSE]
    /\ statisticalAnalysis = [shown |-> FALSE]
    /\ fn = "none"
    /\ arg = [i |-> 0]
    /\ ret = NaN

NextInsights == SwitchTabTechnicalInsights

SpecInsights == InitInsights /\ [][NextInsights]_vars

(***************************************************************************)
(* SpecOutlier: result sets of eight priced records, five of them at one   *)
(* price and three at any of six prices around it.                         *)
(***************************************************************************)
CommonPrice == 10
OddPrices   == {1, 8, 9, 11, 12, 30}

SkewedResultSets ==
    {<<Priced(JsInt(first)), Priced(JsInt(second))>>
         \o [i \in 1..5 |-> Priced(JsInt(CommonPrice))]
         \o <<Priced(JsInt(last))>> :
         first \in OddPrices, second \in OddPrices, last \in OddPrices}

InitOutlier ==
    /\ InitUi
    /\ currentProperties \in SkewedResultSets
    /\ Searched(currentProperties)
    /\ now = 0
    /\ investmentScores = <<>>
    /\ topPicks = <<>>
    /\ outlierAnalysis = [shown |-> FALSE]
    /\ statisticalAnalysis = [shown |-> FALSE]
    /\ fn = "none"
    /\ arg = [i |-> 0]
    /\ ret = NaN

NextOutlier == SwitchTabTechnicalInsights

SpecOutlier == InitOutlier /\ [][NextOutlier]_vars

(***************************************************************************)
(* Spec: searches, the clock and the Technical Insights tab.               *)
(***************************************************************************)
AppResultSets ==
    {<<>>, ExampleResultSet} \cup SeqsUpTo({Priced(JsInt(0)), Priced(JsInt(100))}, 2)
        \cup {s \in SeqsUpTo(RankRecords, 2) : Len(s) = 2}

Init ==
    /\ InitUi
    /\ InitApp
    /\ fn = "none"
    /\ arg = [i |-> 0]
    /\ ret = NaN

Next ==
    \/ \E properties \in AppResultSets : DisplayResults(properties)
    \/ Tick
    \/ SwitchTabTechnicalInsights

Spec == Init /\ [][Next]_vars

(***************************************************************************)
(* SpecMortgage: the mortgage calculator recalculated on every change of   *)
(* its fields.  A field left empty parses to NaN.  Rates above 0 are drawn *)
(* with a term of one year, where the powers stay within the integers of   *)
(* the model.                                                              *)
(***************************************************************************)
analyticsVars == <<appVars, fn, arg, ret>>

MortgagePrices   == {NaN, JsInt(0), JsInt(50), JsInt(60), JsInt(100)}
MortgageDeposits == {JsInt(0), JsInt(20), JsInt(50), JsInt(100)}
MortgageTerms ==
    {[rate |-> JsInt(0), years |-> y] : y \in 1..MaxYears}
        \cup {[rate |-> JsInt(x), years |-> 1] : x \in {600, 1200, 2400}}

CalculateMortgage(priceField, depositPercent, ratePercent, termYears) ==
    /\ mortgage' = calculateMortgage(priceField, depositPercent, ratePercent, termYears)
    /\ UNCHANGED <<panelVars, analyticsVars, cashflow, affordability, propertiesGrid, valueAnalysis, timeline>>

InitMortgage == Init

NextMortgage ==
    \E priceField \in MortgagePrices, depositPercent \in MortgageDeposits,
       term \in MortgageTerms :
        CalculateMortgage(priceField, depositPercent, term.rate, term.years)

SpecMortgage == InitMortgage /\ [][NextMortgage]_vars

(***************************************************************************)
(* SpecCashFlow: the cash flow calculator recalculated on every change of  *)
(* its fields.  The management fee is a slider and always a number.        *)
(***************************************************************************)
CashFlowFields ==
    [weeklyRent      : {NaN, JsInt(600)},
     mortgagePayment : {NaN, JsInt(2000)},
     councilRates    : {JsInt(0), JsInt(2000)},
     strataFees      : {NaN, JsInt(500)},
     insurance       : {JsInt(1000), JsInt(2200), JsInt(7000)},
     maintenance     : {NaN, JsInt(1000)},
     managementFee   : {JsInt(0), JsInt(10), JsNum(15, 2)}]

CalculateCashFlow(fields) ==
    /\ cashflow' = calculateCashFlow(fields, cashflow.classList)
    /\ UNCHANGED <<panelVars, analyticsVars, mortgage, affordability, propertiesGrid, valueAnalysis, timeline>>

InitCashFlow == Init

NextCashFlow == \E fields \in CashFlowFields : CalculateCashFlow(fields)

SpecCashFlow == InitCashFlow /\ [][NextCashFlow]_vars

(***************************************************************************)
(* SpecAffordability: the affordability calculator recalculated on every   *)
(* change of its fields; a number field holds whatever number was typed.   *)
(***************************************************************************)
AffordabilityFields ==
    [householdIncome  : {NaN, JsInt(4000)},
     availableDeposit : {NaN, JsInt(2000)},
     monthlyExpenses  : {NaN, JsInt(100)},
     monthlyDebts     : {NaN, JsInt(50), JsInt(200)},
     targetPrice      : {NaN, JsInt(-30000), JsInt(10000), JsInt(15000), JsInt(17821),
                         JsInt(20000)}]

CalculateAffordability(fields) ==
    /\ affordability' = calculateAffordability(fields, affordability.classList)
    /\ UNCHANGED <<panelVars, analyticsVars, mortgage, cashflow, propertiesGrid, valueAnalysis, timeline>>

InitAffordability == Init

NextAffordability == \E fields \in AffordabilityFields : CalculateAffordability(fields)

SpecAffordability == InitAffordability /\ [][NextAffordability]_vars

(***************************************************************************)
(* SpecFrame: searches, the sort menus, the Technical Insights tab and the *)
(* timeline, in any order.  Every record drawn has a listing date, so the  *)
(* comparators are consistent.                                             *)
(***************************************************************************)
House150   == Property(JsInt(150), LandStr(<<"6", "5", "0", "m">>), JsInt(3), Undefined,
                       Undefined, "Townhouse", JsInt(1 - 30 * HoursPerDay))
House100   == Property(JsInt(100), LandNum(750), JsInt(3), JsInt(2), JsInt(2), "House",
                       JsInt(1 - 7 * HoursPerDay))
Unit100    == Property(JsInt(100), NoLand, Undefined, Undefined, Undefined, "Unit",
                       JsInt(-2000))
OnRequest  == Property(Undefined, LandNum(500), JsInt(4), JsInt(1), Undefined, "House",
                       JsInt(1 - 7 * HoursPerDay))

FrameResultSets ==
    {<<>>,
     <<House100, Unit100, House150>>,
     <<OnRequest, House150, Unit100, House100>>}

SliderPercentages == {0, 100}

InitFrame == Init

NextFrame ==
    \/ \E properties \in FrameResultSets : DisplayResults(properties)
    \/ \E sortBy \in SortSelectValues : SortPropertiesSelect(sortBy)
    \/ SwitchTabTechnicalInsights
    \/ SwitchPlaygroundFeatureTimeline
    \/ \E sortValue \in TimelineSortValues : SortTimelineSelect(sortValue)
    \/ \E percentage \in SliderPercentages : TimelineSliderInput(percentage)
    \/ Tick

SpecFrame == InitFrame /\ [][NextFrame]_vars

(***************************************************************************)
(* SpecPlayback: searches, the timeline, its slider and its playback.  One *)
(* record of the second result set has no listing date.                    *)
(***************************************************************************)
Undated == Property(JsInt(120), NoLand, JsInt(2), JsInt(1), Undefined, "Unit", Undefined)

Dated(price, date) ==
    Property(JsInt(price), NoLand, JsInt(2), JsInt(1), Undefined, "Unit", JsInt(date))

PlaybackResultSets ==
    {<<Dated(100, -300), Dated(150, -200), Dated(200, -100)>>,
     <<Dated(100, -300), Undated>>}

PlaybackStops == {0, 50, 100}

InitPlayback == Init

NextPlayback ==
    \/ \E properties \in PlaybackResultSets : DisplayResults(properties)
    \/ SwitchPlaygroundFeatureTimeline
    \/ \E percentage \in PlaybackStops : TimelineSliderInput(percentage)
    \/ \E sortValue \in {"date-new", "price-high"} : SortTimelineSelect(sortValue)
    \/ PlayTimeline
    \/ \E k \in 1..2 : TimelineTick(k)
    \/ ResetTimeline

SpecPlayback == InitPlayback /\ [][NextPlayback]_vars

(***************************************************************************)
(* Searches.  A call of fetchSuburbData that reaches fetch waits for the   *)
(* response with its own `suburb`; `searches` lists these calls in the     *)
(* order they started, with what became of each and whether another call   *)
(* was waiting when it started.                                            *)
(***************************************************************************)
MaxSearches == 3    \* searches started in one behaviour

Shown(message) == [display |-> "flex", message |-> message]

\* the message thrown for a response whose status is not ok
errorMessage(status) ==
    CASE status = 401 -> "Access denied"
      [] status = 404 -> "Suburb not found"
      [] status = 429 -> "Too many requests"
      [] status \in {500, 502, 503} -> "The API service is temporarily unavailable"
      [] OTHER -> "Unable to fetch data"

InFlight == {i \in DOMAIN searches : searches[i].status = "pending"}

\* the 'keypress' listener of #suburbInput with the key Enter, the input
\* holding `value` (trimmed): fetchSuburbData up to its first await
KeypressEnter(value) ==
    /\ Len(searches) < MaxSearches
    /\ IF value = ""
       THEN /\ errorDiv' = Shown("Please enter a suburb name")
            /\ UNCHANGED <<searches, resultsSection, loadingDiv, searchBtn>>
       ELSE /\ errorDiv' = Hidden
            /\ resultsSection' = "none"
            /\ loadingDiv' = "flex"
            /\ searchBtn' = [disabled |-> TRUE]
            /\ searches' = Append(searches, [suburb     |-> value,
                                             status     |-> "pending",
                                             concurrent |-> InFlight # {}])
    /\ UNCHANGED <<lastFetchedData, currentSuburb, suburbNameSpan>>
    /\ UNCHANGED <<currentProperties, propertiesGrid>>
    /\ UNCHANGED <<boardVars, calcVars, valueAnalysis, timeline>>
    /\ UNCHANGED <<now, investmentScores, topPicks, outlierAnalysis, statisticalAnalysis,
                   fn, arg, ret>>

\* the catch and finally blocks: hideLoading, showError, enableButton
SearchFails(i, message) ==
    /\ searches' = [searches EXCEPT ![i].status = "failed"]
    /\ loadingDiv' = "none"
    /\ errorDiv' = Shown(message)
    /\ searchBtn' = [disabled |-> FALSE]
    /\ UNCHANGED <<lastFetchedData, currentSuburb, suburbNameSpan, resultsSection>>
    /\ UNCHANGED <<currentProperties, propertiesGrid>>

\* the response to call i arrives: fetchSuburbData from its first await on
ResponseArrives(i, response) ==
    /\ i \in InFlight
    /\ IF response.ok
       THEN /\ searches' = [searches EXCEPT ![i].status = "displayed"]
            /\ lastFetchedData' = response.data
            /\ loadingDiv' = "none"
            /\ displayResults(searches[i].suburb, response.data)
            /\ searchBtn' = [disabled |-> FALSE]
            /\ UNCHANGED errorDiv
       ELSE SearchFails(i, errorMessage(response.status))
    /\ UNCHANGED <<boardVars, calcVars, valueAnalysis, timeline>>
    /\ UNCHANGED <<now, investmentScores, topPicks, outlierAnalysis, statisticalAnalysis,
                   fn, arg, ret>>

\* fetch rejects with TypeError('Failed to fetch')
NetworkFailure(i) ==
    /\ i \in InFlight
    /\ SearchFails(i, "Cannot connect to the server")
    /\ UNCHANGED <<boardVars, calcVars, valueAnalysis, timeline>>
    /\ UNCHANGED <<now, investmentScores, topPicks, outlierAnalysis, statisticalAnalysis,
                   fn, arg, ret>>

\* exportJSON: the suburb and the properties of the report
exportJSON(suburb, properties) ==
    [suburb     |-> suburb,
     summary    |-> [totalProperties |-> Len(properties)],
     properties |-> properties]

(***************************************************************************)
(* SpecSearch: searches for four suburbs, started with the Enter key at    *)
(* any time.  The server answers a suburb always in the same way: two have *)
(* listings, one has none, one is unknown.                                 *)
(***************************************************************************)
Ok(properties) == [ok |-> TRUE, status |-> 200, data |-> Data(properties)]
Status(status) == [ok |-> FALSE, status |-> status, data |-> NoData]

Server(suburb) ==
    CASE suburb = "Belmont North" -> Ok(<<Dated(100, -300), Dated(150, -200)>>)
      [] suburb = "Newcastle"     -> Ok(<<Dated(200, -100)>>)
      [] suburb = "Swansea"       -> Ok(<<>>)
      [] OTHER                    -> Status(404)

SearchInputs == {"", "Belmont North", "Newcastle", "Swansea", "Atlantis"}

InitSearches == Init

NextSearch ==
    \/ \E value \in SearchInputs : KeypressEnter(value)
    \/ \E i \in 1..MaxSearches : ResponseArrives(i, Server(searches[i].suburb))
    \/ \E i \in 1..MaxSearches : NetworkFailure(i)

SpecSearch == InitSearches /\ [][NextSearch]_vars

\* every fetch settles
SpecSearchFair ==
    SpecSearch /\ \A i \in 1..MaxSearches :
                     WF_vars(ResponseArrives(i, Server(searches[i].suburb)) \/ NetworkFailure(i))

(***************************************************************************)
(* The CSV export.  A text is a sequence of characters, and a run of       *)
(* ordinary characters may stand as one element of it; a field of a        *)
(* property is a text, a number or undefined.                              *)
(***************************************************************************)
Comma   == ","
Quote   == "\""
Newline == "\n"

Text(chars) == [tag |-> "string", num |-> 0, text |-> chars]
Number(i)   == [tag |-> "number", num |-> i, text |-> <<>>]
Missing     == [tag |-> "undefined", num |-> 0, text |-> <<>>]

\* String(value)
String(value) ==
    CASE value.tag = "string" -> value.text
      [] value.tag = "number" -> NumberToString(value.num)
      [] OTHER                -> <<"undefined">>

\* value || '': undefined, 0 and '' are falsy
OrEmpty(value) ==
    IF \/ value.tag = "undefined"
       \/ value.tag = "number" /\ value.num = 0
       \/ value.tag = "string" /\ value.text = <<>>
    THEN Text(<<>>)
    ELSE value

\* stringValue.includes(char)
includes(stringValue, char) == \E i \in DOMAIN stringValue : stringValue[i] = char

\* stringValue.replace(/"/g, '""')
RECURSIVE DoubleQuotes(_)
DoubleQuotes(stringValue) ==
    IF stringValue = <<>> THEN <<>>
    ELSE (IF Head(stringValue) = Quote THEN <<Quote, Quote>> ELSE <<Head(stringValue)>>)
             \o DoubleQuotes(Tail(stringValue))

escapeCSV(value) ==
    IF value.tag = "undefined" THEN <<>>
    ELSE LET stringValue == String(value)
         IN  IF \/ includes(stringValue, Comma)
                \/ includes(stringValue, Quote)
                \/ includes(stringValue, Newline)
             THEN <<Quote>> \o DoubleQuotes(stringValue) \o <<Quote>>
             ELSE stringValue

\* array.join(','), of an array of texts
RECURSIVE Join(_)
Join(array) ==
    IF array = <<>> THEN <<>>
    ELSE IF Len(array) = 1 THEN array[1]
    ELSE array[1] \o <<Comma>> \o Join(Tail(array))

DescriptionLimit == 500

\* string.substring(0, end)
Substring(chars, end) == SubSeq(chars, 1, IF Len(chars) < end THEN Len(chars) ELSE end)

headers ==
    <<<<"Address">>, <<"Suburb">>, <<"State">>, <<"Property Type">>, <<"Price">>,
      <<"Bedrooms">>, <<"Bathrooms">>, <<"Garage Spaces">>, <<"Land Size">>,
      <<"Listing Date">>, <<"Description">>>>

\* the row of one property, before the join
Row(property) ==
    <<escapeCSV(OrEmpty(property.address.street)),
      escapeCSV(OrEmpty(property.address.sal)),
      escapeCSV(OrEmpty(property.address.state)),
      escapeCSV(OrEmpty(property.property_type)),
      String(OrEmpty(property.price)),
      String(OrEmpty(property.attributes.bedrooms)),
      String(OrEmpty(property.attributes.bathrooms)),
      String(OrEmpty(property.attributes.garage_spaces)),
      escapeCSV(OrEmpty(property.attributes.land_size)),
      String(OrEmpty(property.listing_date)),
      escapeCSV(Text(Substring(OrEmpty(property.attributes.description).text,
                               DescriptionLimit)))>>

RECURSIVE Rows(_)
Rows(properties) ==
    IF properties = <<>> THEN <<>>
    ELSE Join(Row(Head(properties))) \o <<Newline>> \o Rows(Tail(properties))

generatePropertiesCSV(properties) == Join(headers) \o <<Newline>> \o Rows(properties)

\* Reading a CSV text back (RFC 4180).  A comma or a newline separates where
\* the number of quotes before it is even; a field that starts with a quote
\* loses its outer quotes and the second quote of every pair.
QuotesBefore(chars, i) == Cardinality({h \in 1..(i - 1) : chars[h] = Quote})

Breaks(chars, set) ==
    {i \in DOMAIN chars : chars[i] \in set /\ QuotesBefore(chars, i) % 2 = 0}

\* the k-th smallest index of a set of indices
Nth(indices, k) == CHOOSE i \in indices : Cardinality({h \in indices : h <= i}) = k

Split(chars, set) ==
    LET Parts(breaks) ==
            LET count == Cardinality(breaks)
                Start(k) == IF k = 1 THEN 1 ELSE Nth(breaks, k - 1) + 1
                End(k)   == IF k = count + 1 THEN Len(chars) ELSE Nth(breaks, k) - 1
            IN  [k \in 1..(count + 1) |-> SubSeq(chars, Start(k), End(k))]
    IN  Only({Parts(breaks) : breaks \in {Breaks(chars, set)}})

Unquote(field) ==
    IF field = <<>> \/ field[1] # Quote THEN field
    ELSE LET inner == SubSeq(field, 2, IF Len(field) > 1 /\ field[Len(field)] = Quote
                                       THEN Len(field) - 1 ELSE Len(field))
             kept  == {i \in DOMAIN inner :
                          inner[i] # Quote \/ QuotesBefore(inner, i) % 2 = 0}
         IN  [k \in 1..Cardinality(kept) |-> inner[Nth(kept, k)]]

ParseRecord(line) ==
    LET Unquoted(fields) == [k \in DOMAIN fields |-> Unquote(fields[k])]
    IN  Only({Unquoted(fields) : fields \in {Split(line, {Comma})}})

ParseCSV(csv) ==
    LET Records(lines) ==
            [k \in 1..(IF lines[Len(lines)] = <<>> THEN Len(lines) - 1 ELSE Len(lines))
                 |-> ParseRecord(lines[k])]
    IN  Only({Records(lines) : lines \in {Split(csv, {Newline})}})

\* the values of a property under the headers, in their order
Fields(property) ==
    <<property.address.street, property.address.sal, property.address.state,
      property.property_type, property.price, property.attributes.bedrooms,
      property.attributes.bathrooms, property.attributes.garage_spaces,
      property.attributes.land_size, property.listing_date,
      property.attributes.description>>

\* exportCSV, up to the download: the CSV of currentProperties
GeneratePropertiesCSV ==
    /\ fn' = "generatePropertiesCSV"
    /\ arg' = Missing
    /\ ret' = generatePropertiesCSV(currentProperties)
    /\ UNCHANGED uiVars
    /\ UNCHANGED appVars

\* escapeCSV applied to the value of column j of property i
CallEscapeCSV(i, j) ==
    /\ i \in DOMAIN currentProperties
    /\ fn' = "escapeCSV"
    /\ arg' = Fields(currentProperties[i])[j]
    /\ ret' = escapeCSV(arg')
    /\ UNCHANGED uiVars
    /\ UNCHANGED appVars

(***************************************************************************)
(* SpecCSV: the export of a result set of two listings.  The first has a   *)
(* street and a description with commas, quotes and newlines in them, a    *)
(* description longer than the export keeps, no garage or none recorded,   *)
(* and a listing date in one of two notations.                             *)
(***************************************************************************)
MaxField == 2      \* longest street and description drawn character by character

CsvChars == {"a", Comma, Quote, Newline}
Texts    == SeqsUpTo(CsvChars, MaxField)

LongDescription == [i \in 1..(DescriptionLimit + 1) |-> "a"]

CsvRecord(street, garages, date, description) ==
    [address       |-> [street |-> street, sal |-> Text(<<"Belmont North">>),
                        state |-> Text(<<"NSW">>)],
     property_type |-> Text(<<"House">>),
     price         |-> Number(750),
     attributes    |-> [bedrooms |-> Number(3), bathrooms |-> Number(1),
                        garage_spaces |-> garages, land_size |-> Text(<<"607 sqm">>),
                        description |-> description],
     listing_date  |-> date]

Streets == {Missing} \cup {Text(chars) : chars \in Texts}
Garages == {Missing, Number(0), Number(2)}
CsvDates == {Missing, Text(<<"2025-09-12">>), Text(<<"12 Sep", Comma, " 2025">>)}
Descriptions == {Missing, Text(<<"a", Quote, "a", Quote, Newline, "a">>), Text(LongDescription)}

PlainRecord == CsvRecord(Text(<<"1 Main St">>), Number(1), Text(<<"2025-08-01">>), Missing)

InitCSV ==
    /\ InitUi
    /\ \E street \in Streets, garages \in Garages, date \in CsvDates,
          description \in Descriptions :
           currentProperties = <<CsvRecord(street, garages, date, description), PlainRecord>>
    /\ Searched(currentProperties)
    /\ now = 0
    /\ investmentScores = <<>>
    /\ topPicks = <<>>
    /\ outlierAnalysis = [shown |-> FALSE]
    /\ statisticalAnalysis = [shown |-> FALSE]
    /\ fn = "none"
    /\ arg = Missing
    /\ ret = <<>>

NextCSV ==
    \/ GeneratePropertiesCSV
    \/ \E i \in 1..2, j \in {1, 8, 11} : CallEscapeCSV(i, j)

SpecCSV == InitCSV /\ [][NextCSV]_vars

(***************************************************************************)
(* The Property Tinder panel of the Playground tab: the stack of cards,    *)
(* the like, pass and undo handlers and the card advance, which every like *)
(* or pass schedules 500 ms later.                                         *)
(***************************************************************************)
MaxTimers == 2
MaxSwipes == 3

\* swipeStack[currentSwipeIndex]
CardAt(stack, index) == stack[index + 1]

\* array.pop(), which leaves an empty array empty
Pop(array) == IF array = <<>> THEN array ELSE SubSeq(array, 1, Len(array) - 1)

\* array.splice(index, 1)
Splice(array, index) ==
    IF index + 1 \in DOMAIN array
    THEN SubSeq(array, 1, index) \o SubSeq(array, index + 2, Len(array))
    ELSE array

\* Render Swipe Cards: past the end of the stack the completion message
\* replaces the cards, and currentCard keeps the element that was removed
renderSwipeCards(stack, index, card) ==
    IF index >= Len(stack)
    THEN [swipeStackEl |-> "all-done", currentCard |-> [card EXCEPT !.attached = FALSE]]
    ELSE [swipeStackEl |-> "cards",
          currentCard  |-> [propertyIndex |-> index, attached |-> TRUE]]

RenderSwipeCards(stack, index) ==
    LET rendered == renderSwipeCards(stack, index, currentCard)
    IN  /\ swipeStackEl' = rendered.swipeStackEl
        /\ currentCard' = rendered.currentCard

\* Initialize Playground Tab: the lists of decisions and the pending card
\* advances are left as they are
generatePlayground ==
    /\ swipeStack' = currentProperties
    /\ currentSwipeIndex' = 0
    /\ RenderSwipeCards(currentProperties, 0)
    /\ UNCHANGED <<likedProperties, passedProperties, swipeHistory, advanceTimers>>

SwitchTabPlayground ==
    /\ Len(currentProperties) > 0
    /\ generatePlayground
    /\ UNCHANGED <<comparisonProperties, mapVars>>
    /\ UNCHANGED <<searchVars, calcVars, propertiesGrid, valueAnalysis, timeline>>
    /\ UNCHANGED analyticsVars

\* the decision is stored in its list and in the history, and the card
\* advance is scheduled
RecordSwipe(direction) ==
    LET property == CardAt(swipeStack, currentSwipeIndex)
    IN  /\ likedProperties' = IF direction = "right"
                              THEN Append(likedProperties, property)
                              ELSE likedProperties
        /\ passedProperties' = IF direction = "right"
                               THEN passedProperties
                               ELSE Append(passedProperties, property)
        /\ swipeHistory' = Append(swipeHistory,
                                  [property |-> property, direction |-> direction])
        /\ advanceTimers' = advanceTimers + 1
        /\ UNCHANGED <<swipeStack, currentSwipeIndex, currentCard, swipeStackEl>>

SwipeBounded ==
    /\ advanceTimers < MaxTimers
    /\ Len(swipeHistory) < MaxSwipes

\* Complete Swipe: a drag of the top card released more than 100 px aside.
\* The drag starts on the element held in currentCard, which stays in the
\* document until the next render.
completeSwipe(direction) ==
    /\ currentCard.attached
    /\ SwipeBounded
    /\ RecordSwipe(direction)
    /\ UNCHANGED <<comparisonProperties, mapVars>>
    /\ UNCHANGED <<searchVars, calcVars, propertiesGrid, valueAnalysis, timeline>>
    /\ UNCHANGED analyticsVars

\* Swipe Left (Button), and the ArrowLeft key
swipeLeft ==
    /\ ~(currentCard = NoCard \/ currentSwipeIndex >= Len(swipeStack))
    /\ SwipeBounded
    /\ RecordSwipe("left")
    /\ UNCHANGED <<comparisonProperties, mapVars>>
    /\ UNCHANGED <<searchVars, calcVars, propertiesGrid, valueAnalysis, timeline>>
    /\ UNCHANGED analyticsVars

\* Swipe Right (Button), and the ArrowRight key
swipeRight ==
    /\ ~(currentCard = NoCard \/ currentSwipeIndex >= Len(swipeStack))
    /\ SwipeBounded
    /\ RecordSwipe("right")
    /\ UNCHANGED <<comparisonProperties, mapVars>>
    /\ UNCHANGED <<searchVars, calcVars, propertiesGrid, valueAnalysis, timeline>>
    /\ UNCHANGED analyticsVars

\* the callback of setTimeout(..., 500): Move to next card
AdvanceCard ==
    /\ advanceTimers > 0
    /\ advanceTimers' = advanceTimers - 1
    /\ currentSwipeIndex' = currentSwipeIndex + 1
    /\ RenderSwipeCards(swipeStack, currentSwipeIndex + 1)
    /\ UNCHANGED <<swipeStack, likedProperties, passedProperties, swipeHistory>>
    /\ UNCHANGED <<comparisonProperties, mapVars>>
    /\ UNCHANGED <<searchVars, calcVars, propertiesGrid, valueAnalysis, timeline>>
    /\ UNCHANGED analyticsVars

\* Undo Last Swipe (button, and the ArrowUp key)
undoSwipe ==
    /\ ~(Len(swipeHistory) = 0 \/ currentSwipeIndex = 0)
    /\ LET lastSwipe == swipeHistory[Len(swipeHistory)]
       IN  /\ swipeHistory' = Pop(swipeHistory)
           /\ likedProperties' = IF lastSwipe.direction = "right"
                                 THEN Pop(likedProperties) ELSE likedProperties
           /\ passedProperties' = IF lastSwipe.direction = "right"
                                  THEN passedProperties ELSE Pop(passedProperties)
    /\ currentSwipeIndex' = currentSwipeIndex - 1
    /\ RenderSwipeCards(swipeStack, currentSwipeIndex - 1)
    /\ UNCHANGED <<swipeStack, advanceTimers>>
    /\ UNCHANGED <<comparisonProperties, mapVars>>
    /\ UNCHANGED <<searchVars, calcVars, propertiesGrid, valueAnalysis, timeline>>
    /\ UNCHANGED analyticsVars

\* Remove Liked Property: the button of the index-th card of the liked panel
removeLikedProperty(index) ==
    /\ index + 1 \in DOMAIN likedProperties
    /\ likedProperties' = Splice(likedProperties, index)
    /\ UNCHANGED <<swipeStack, currentSwipeIndex, passedProperties, swipeHistory,
                   currentCard, swipeStackEl, advanceTimers>>
    /\ UNCHANGED <<comparisonProperties, mapVars>>
    /\ UNCHANGED <<searchVars, calcVars, propertiesGrid, valueAnalysis, timeline>>
    /\ UNCHANGED analyticsVars

\* Reset Playground (Start Over): the pending card advances stay scheduled
resetPlayground ==
    /\ swipeStack' = currentProperties
    /\ currentSwipeIndex' = 0
    /\ likedProperties' = <<>>
    /\ passedProperties' = <<>>
    /\ swipeHistory' = <<>>
    /\ RenderSwipeCards(currentProperties, 0)
    /\ UNCHANGED advanceTimers
    /\ UNCHANGED <<comparisonProperties, mapVars>>
    /\ UNCHANGED <<searchVars, calcVars, propertiesGrid, valueAnalysis, timeline>>
    /\ UNCHANGED analyticsVars

(***************************************************************************)
(* SpecSwipe: a search, the Playground tab, and likes, passes, removals    *)
(* and undos in any order, the card advances running at any later time.    *)
(***************************************************************************)
SwipeResultSets == {<<House100, Unit100, House150>>}

InitSwipePanel == Init

NextSwipe ==
    \/ \E properties \in SwipeResultSets : DisplayResults(properties)
    \/ SwitchTabPlayground
    \/ swipeLeft
    \/ swipeRight
    \/ \E direction \in {"left", "right"} : completeSwipe(direction)
    \/ AdvanceCard
    \/ undoSwipe
    \/ \E index \in 0..(MaxSwipes - 1) : removeLikedProperty(index)
    \/ resetPlayground

SpecSwipe == InitSwipePanel /\ [][NextSwipe]_vars

(***************************************************************************)
(* SpecDecide: a fresh stack of the properties of a search, then likes and *)
(* passes only, by button, key or drag, and the card advances.             *)
(***************************************************************************)
DecideResultSets ==
    {<<House100>>, <<Unit100, House150>>, <<House100, Unit100, House150>>}

\* the state that displayResults and then switchTab('playground') leave
InitDecide ==
    \E properties \in DecideResultSets :
        /\ currentProperties = properties
        /\ Searched(properties)
        /\ propertiesGrid = [sortBy |-> "none", cards |-> properties]
        /\ swipeStack = properties
        /\ currentSwipeIndex = 0
        /\ swipeStackEl = "cards"
        /\ currentCard = [propertyIndex |-> 0, attached |-> TRUE]
        /\ likedProperties = <<>>
        /\ passedProperties = <<>>
        /\ swipeHistory = <<>>
        /\ advanceTimers = 0
        /\ InitMap
        /\ now = 0
        /\ investmentScores = <<>>
        /\ topPicks = <<>>
        /\ outlierAnalysis = [shown |-> FALSE]
        /\ statisticalAnalysis = [shown |-> FALSE]
        /\ fn = "none"
        /\ arg = [i |-> 0]
        /\ ret = NaN
        /\ mortgage = NoMortgage
        /\ cashflow = NoCashFlow
        /\ affordability = NoAffordability
        /\ valueAnalysis = [shown |-> FALSE]
        /\ timeline = NoTimeline

NextDecide ==
    \/ swipeLeft
    \/ swipeRight
    \/ \E direction \in {"left", "right"} : completeSwipe(direction)
    \/ AdvanceCard

SpecDecide == InitDecide /\ [][NextDecide]_vars

(***************************************************************************)
(* The Map View tab: the markers, the price sliders, the type checkboxes,  *)
(* the count badge, and the comparison list filled from the popups.        *)
(***************************************************************************)
Str(s) == [k |-> "str", s |-> s]

\* a record of the search with its address and its coordinates
Listing(property, street, located) ==
    [price         |-> property.price,
     attributes    |-> property.attributes,
     property_type |-> property.property_type,
     listing_date  |-> property.listing_date,
     address       |-> [street |-> street],
     coordinates   |-> IF located
                       THEN [latitude |-> JsInt(-33), longitude |-> JsInt(151)]
                       ELSE Undefined]

\* property.address?.street
Street(property) ==
    IF "address" \in DOMAIN property THEN property.address.street ELSE Undefined

\* a === b for a string or undefined
StrictEquals(a, b) == a.k = b.k /\ (a.k = "str" => a.s = b.s)

\* !property.coordinates || !property.coordinates.latitude || !...longitude
HasCoordinates(property) ==
    /\ "coordinates" \in DOMAIN property
    /\ property.coordinates # Undefined
    /\ Truthy(property.coordinates.latitude)
    /\ Truthy(property.coordinates.longitude)


\* passesFilters, for the propertyData of a marker
PassesFilters(property, filters) ==
    LET price == OrZero(property.price)
        type  == property.property_type
    IN  /\ JsGe(price, filters.minPrice)
        /\ JsLe(price, filters.maxPrice)
        /\ type \in filters.propertyTypes

\* the markers filterMapMarkers leaves on the map, and its visibleCount++
RECURSIVE VisibleCount(_, _)
VisibleCount(markers, filters) ==
    IF markers = <<>> THEN 0
    ELSE VisibleCount(SubSeq(markers, 1, Len(markers) - 1), filters)
             + (IF PassesFilters(markers[Len(markers)], filters) THEN 1 ELSE 0)

filterMapMarkers(markers, filters) ==
    [shownMarkers         |-> {i \in DOMAIN markers : PassesFilters(markers[i], filters)},
     visiblePropertyCount |-> VisibleCount(markers, filters)]

FilterMapMarkers(markers, filters) ==
    LET filtered == filterMapMarkers(markers, filters)
    IN  /\ shownMarkers' = filtered.shownMarkers
        /\ visiblePropertyCount' = filtered.visiblePropertyCount

\* the value a range input takes when `value` is assigned to it
RangeValue(slider, value) ==
    IF value < slider.min THEN slider.min
    ELSE IF value > slider.max THEN slider.max
    ELSE value

SetValue(slider, value) == [slider EXCEPT !.value = RangeValue(slider, value)]

\* slider.min = min; slider.max = max; slider.value = value
SetRange(slider, min, max, value) ==
    LET inRange == [slider EXCEPT !.min = min, !.max = max]
    IN  SetValue([inRange EXCEPT !.value = RangeValue(inRange, slider.value)], value)

\* Setup Price Range Filters: the range of the prices of the current list
setupPriceFilters(props, sliders, filters) ==
    LET prices   == PositivePrices(props)
        minPrice == MathMin(prices)
        maxPrice == MathMax(prices)
    IN  IF Len(prices) > 0
        THEN [priceSliders      |-> [min |-> SetRange(sliders.min, 0, maxPrice.n, minPrice.n),
                                     max |-> SetRange(sliders.max, 0, maxPrice.n, maxPrice.n)],
              currentMapFilters |-> [filters EXCEPT !.minPrice = minPrice,
                                                    !.maxPrice = maxPrice]]
        ELSE [priceSliders |-> sliders, currentMapFilters |-> filters]

\* Add Property Markers to Map: one marker for each record with coordinates
addPropertyMarkers(props) == SelectSeq(props, HasCoordinates)

\* Update Property Count
updatePropertyCount(markers, filters) ==
    Len(SelectSeq(markers, LAMBDA property : PassesFilters(property, filters)))

\* switchTab('map-view') and, 100 ms later, generateMapView: the sliders are
\* set up with the first map only
SwitchTabMapView ==
    /\ Len(currentProperties) > 0
    /\ LET setup   == IF propertyMap
                      THEN [priceSliders |-> priceSliders,
                            currentMapFilters |-> currentMapFilters]
                      ELSE setupPriceFilters(currentProperties, priceSliders,
                                             currentMapFilters)
           markers == addPropertyMarkers(currentProperties)
       IN  /\ propertyMap' = TRUE
           /\ priceSliders' = setup.priceSliders
           /\ currentMapFilters' = setup.currentMapFilters
           /\ mapMarkers' = markers
           /\ shownMarkers' = filterMapMarkers(markers, setup.currentMapFilters).shownMarkers
           /\ visiblePropertyCount' = updatePropertyCount(markers, setup.currentMapFilters)
    /\ UNCHANGED <<heatMapLayer, isHeatMapVisible>>
    /\ UNCHANGED <<swipeVars, comparisonProperties>>
    /\ UNCHANGED <<searchVars, calcVars, propertiesGrid, valueAnalysis, timeline>>
    /\ UNCHANGED analyticsVars

\* the 'input' listener of #minPriceSlider, the thumb dragged to `value`
MinSliderInput(value) ==
    /\ propertyMap
    /\ value \in priceSliders.min.min .. priceSliders.min.max
    /\ LET minPrice == JsInt(value)
           over     == JsGt(minPrice, currentMapFilters.maxPrice)
           filters  == [currentMapFilters EXCEPT
                            !.minPrice = minPrice,
                            !.maxPrice = IF over THEN JsInt(value) ELSE @]
       IN  /\ currentMapFilters' = filters
           /\ priceSliders' =
                  [min |-> [priceSliders.min EXCEPT !.value = value],
                   max |-> IF over THEN SetValue(priceSliders.max, value)
                           ELSE priceSliders.max]
           /\ FilterMapMarkers(mapMarkers, filters)
    /\ UNCHANGED <<propertyMap, mapMarkers, heatMapLayer, isHeatMapVisible>>
    /\ UNCHANGED <<swipeVars, comparisonProperties>>
    /\ UNCHANGED <<searchVars, calcVars, propertiesGrid, valueAnalysis, timeline>>
    /\ UNCHANGED analyticsVars

\* the 'input' listener of #maxPriceSlider
MaxSliderInput(value) ==
    /\ propertyMap
    /\ value \in priceSliders.max.min .. priceSliders.max.max
    /\ LET maxPrice == JsInt(value)
           under    == JsLt(maxPrice, currentMapFilters.minPrice)
           filters  == [currentMapFilters EXCEPT
                            !.maxPrice = maxPrice,
                            !.minPrice = IF under THEN JsInt(value) ELSE @]
       IN  /\ currentMapFilters' = filters
           /\ priceSliders' =
                  [max |-> [priceSliders.max EXCEPT !.value = value],
                   min |-> IF under THEN SetValue(priceSliders.min, value)
                           ELSE priceSliders.min]
           /\ FilterMapMarkers(mapMarkers, filters)
    /\ UNCHANGED <<propertyMap, mapMarkers, heatMapLayer, isHeatMapVisible>>
    /\ UNCHANGED <<swipeVars, comparisonProperties>>
    /\ UNCHANGED <<searchVars, calcVars, propertiesGrid, valueAnalysis, timeline>>
    /\ UNCHANGED analyticsVars

\* the 'change' listener of a .property-type-filter checkbox
TypeFilterChange(value, checked) ==
    /\ propertyMap
    /\ LET filters == [currentMapFilters EXCEPT
                           !.propertyTypes = IF checked THEN @ \cup {value}
                                             ELSE @ \ {value}]
       IN  /\ currentMapFilters' = filters
           /\ FilterMapMarkers(mapMarkers, filters)
    /\ UNCHANGED <<propertyMap, mapMarkers, priceSliders, heatMapLayer, isHeatMapVisible>>
    /\ UNCHANGED <<swipeVars, comparisonProperties>>
    /\ UNCHANGED <<searchVars, calcVars, propertiesGrid, valueAnalysis, timeline>>
    /\ UNCHANGED analyticsVars

\* Reset Map Filters: the filters and the sliders it leaves
ResetFilters(props, filters) ==
    LET prices == PositivePrices(props)
        priced == Len(prices) > 0
    IN  [minPrice      |-> IF priced THEN MathMin(prices) ELSE filters.minPrice,
         maxPrice      |-> IF priced THEN MathMax(prices) ELSE filters.maxPrice,
         propertyTypes |-> PropertyTypes]

ResetSliders(props, sliders) ==
    LET prices == PositivePrices(props)
    IN  IF Len(prices) > 0
        THEN [min |-> SetValue(sliders.min, MathMin(prices).n),
              max |-> SetValue(sliders.max, MathMax(prices).n)]
        ELSE sliders

resetMapFilters ==
    /\ priceSliders' = ResetSliders(currentProperties, priceSliders)
    /\ currentMapFilters' = ResetFilters(currentProperties, currentMapFilters)
    /\ FilterMapMarkers(mapMarkers, ResetFilters(currentProperties, currentMapFilters))
    /\ UNCHANGED <<propertyMap, mapMarkers, heatMapLayer, isHeatMapVisible>>
    /\ UNCHANGED <<swipeVars, comparisonProperties>>
    /\ UNCHANGED <<searchVars, calcVars, propertiesGrid, valueAnalysis, timeline>>
    /\ UNCHANGED analyticsVars

\* the heatData of toggleHeatMap: a point for each record with coordinates
\* and a price, its intensity the price over the highest price of the list
HeatData(props) ==
    LET Point(property, maxPrice) ==
            [latitude  |-> property.coordinates.latitude,
             longitude |-> property.coordinates.longitude,
             intensity |-> JsDiv(property.price, maxPrice)]
        Points(located, maxPrice) ==
            [i \in DOMAIN located |-> Point(located[i], maxPrice)]
    IN  Only({Points(located, MathMax(PositivePrices(props))) :
              located \in {SelectSeq(props, LAMBDA property :
                               HasCoordinates(property) /\ Truthy(property.price))}})

\* Toggle Heat Map: the layer is created the first time it is shown
toggleHeatMap ==
    /\ propertyMap
    /\ isHeatMapVisible' = ~isHeatMapVisible
    /\ heatMapLayer' = IF ~isHeatMapVisible /\ heatMapLayer.null
                       THEN heatLayer(HeatData(currentProperties))
                       ELSE heatMapLayer
    /\ UNCHANGED <<propertyMap, mapMarkers, shownMarkers, currentMapFilters, priceSliders,
                   visiblePropertyCount>>
    /\ UNCHANGED <<swipeVars, comparisonProperties>>
    /\ UNCHANGED <<searchVars, calcVars, propertiesGrid, valueAnalysis, timeline>>
    /\ UNCHANGED analyticsVars

\* Add Property to Comparison: the button of the popup of a marker that is
\* shown.  The argument is the record written as JSON in the popup, which
\* has the street of the record or none.
addToComparison(property) ==
    IF Len(comparisonProperties) >= 2 THEN comparisonProperties
    ELSE IF \E i \in DOMAIN comparisonProperties :
                StrictEquals(Street(comparisonProperties[i]), Street(property))
    THEN comparisonProperties
    ELSE Append(comparisonProperties, property)

AddToComparison(marker) ==
    /\ marker \in shownMarkers
    /\ comparisonProperties' = addToComparison(mapMarkers[marker])
    /\ UNCHANGED <<swipeVars, mapVars>>
    /\ UNCHANGED <<searchVars, calcVars, propertiesGrid, valueAnalysis, timeline>>
    /\ UNCHANGED analyticsVars

\* Remove from Comparison: the button of the index-th comparison card
removeFromComparison(index) ==
    /\ index + 1 \in DOMAIN comparisonProperties
    /\ comparisonProperties' = Splice(comparisonProperties, index)
    /\ UNCHANGED <<swipeVars, mapVars>>
    /\ UNCHANGED <<searchVars, calcVars, propertiesGrid, valueAnalysis, timeline>>
    /\ UNCHANGED analyticsVars

\* Clear Comparison
clearComparison ==
    /\ comparisonProperties' = <<>>
    /\ UNCHANGED <<swipeVars, mapVars>>
    /\ UNCHANGED <<searchVars, calcVars, propertiesGrid, valueAnalysis, timeline>>
    /\ UNCHANGED analyticsVars

(***************************************************************************)
(* SpecCompare: searches, the map, and the comparison list filled from the *)
(* popups of the markers, emptied card by card or at once.                 *)
(***************************************************************************)
Home(price, type) ==
    Property(JsInt(price), NoLand, JsInt(3), Undefined, Undefined, type, JsInt(-2000))

HighStHouse == Listing(Home(100, "House"), Str("1 High St"), TRUE)
HighStUnit  == Listing(Home(100, "Unit"), Str("1 High St"), TRUE)
LowRdHouse  == Listing(Home(150, "Townhouse"), Str("2 Low Rd"), TRUE)
NoStreet120 == Listing(Home(120, "House"), Undefined, TRUE)
NoStreet130 == Listing(Home(130, "Unit"), Undefined, TRUE)

CompareResultSets ==
    {<<HighStHouse, LowRdHouse, NoStreet120>>,
     <<HighStUnit, NoStreet130, NoStreet120>>}

InitCompare == Init

NextCompare ==
    \/ \E properties \in CompareResultSets : DisplayResults(properties)
    \/ SwitchTabMapView
    \/ \E marker \in 1..MaxProps : AddToComparison(marker)
    \/ \E index \in 0..1 : removeFromComparison(index)
    \/ clearComparison

SpecCompare == InitCompare /\ [][NextCompare]_vars

(***************************************************************************)
(* SpecMap: searches, the map, the two price sliders, the type checkboxes  *)
(* and the reset of the filters.                                           *)
(***************************************************************************)
OnRequestHouse == Listing(OnRequest, Str("5 Bay St"), TRUE)
Apartment300   == Listing(Home(300, "Apartment"), Str("3 Hill Ave"), TRUE)
Unlocated100   == Listing(Home(100, "House"), Str("4 Far Ln"), FALSE)

MapResultSets ==
    {<<HighStHouse, LowRdHouse>>,
     <<HighStUnit, OnRequestHouse, Unlocated100>>,
     <<LowRdHouse, Apartment300>>,
     <<OnRequestHouse>>}

SliderStops == {0, 100, 120, 150, 300}
CheckboxValues == {"House", "Unit"}

InitMapView == Init

NextMap ==
    \/ \E properties \in MapResultSets : DisplayResults(properties)
    \/ SwitchTabMapView
    \/ \E value \in SliderStops : MinSliderInput(value)
    \/ \E value \in SliderStops : MaxSliderInput(value)
    \/ \E value \in CheckboxValues, checked \in BOOLEAN : TypeFilterChange(value, checked)
    \/ resetMapFilters

SpecMap == InitMapView /\ [][NextMap]_vars

(***************************************************************************)
(* SpecHeat: searches, the map opened after any of them, the heat map      *)
(* switched on and off, the upper price slider and the reset.              *)
(***************************************************************************)
HeatSliderStops == {100, 300}

InitHeat == Init

NextHeat ==
    \/ \E properties \in MapResultSets : DisplayResults(properties)
    \/ SwitchTabMapView
    \/ toggleHeatMap
    \/ \E value \in HeatSliderStops : MaxSliderInput(value)
    \/ resetMapFilters

SpecHeat == InitHeat /\ [][NextHeat]_vars

(***************************************************************************)
(* Order statistics, stated by counting and not by sorting.                *)
(***************************************************************************)
\* the k-th smallest element (k = 1 .. Len(arr)) of a non-empty sample
Kth(arr, k) ==
    CHOOSE v \in Range(arr) :
        /\ Cardinality({i \in DOMAIN arr : arr[i] < v}) < k
        /\ Cardinality({i \in DOMAIN arr : arr[i] <= v}) >= k

\* C6: for every non-empty sample calculateMedian returns the middle element
\* of the ascending sample when the length is odd and the average of the two
\* middle elements when it is even; median([100,300,200]) = 200 and
\* median([100,200,300,400]) = 250.
C6_MedianIsMiddle ==
    (fn = "calculateMedian" /\ arg.arr # <<>>) =>
        LET n == Len(arg.arr)
        IN  /\ (n % 2 = 1) => ret = JsInt(Kth(arg.arr, (n + 1) \div 2))
            /\ (n % 2 = 0) =>
                   ret = JsNum(Kth(arg.arr, n \div 2) + Kth(arg.arr, n \div 2 + 1), 2)
            /\ (arg.arr = <<100, 300, 200>>) => ret = JsInt(200)
            /\ (arg.arr = <<100, 200, 300, 400>>) => ret = JsInt(250)

C6_Witness ==
    /\ fn = "calculateMedian"
    /\ arg.arr = <<400, 100, -50, 200>>
    /\ ret = JsInt(150)

\* C7: calculatePercentile sorts ascending, takes idx = p/100 * (n-1) and
\* interpolates linearly between the elements at floor(idx) and ceil(idx) by
\* the fractional part of idx; percentile([10,20,30,40], 25) = 17.5; and
\* percentile(75) - percentile(25) >= 0 for every sample.
C7_PercentileInterpolates ==
    (fn = "calculatePercentile") =>
        /\ (arg.arr # <<>>) =>
               LET idx100 == arg.p * (Len(arg.arr) - 1)
                   lo     == idx100 \div 100
                   w      == idx100 % 100
               IN  ret = IF w = 0 THEN JsInt(Kth(arg.arr, lo + 1))
                         ELSE JsNum(Kth(arg.arr, lo + 1) * (100 - w)
                                    + Kth(arg.arr, lo + 2) * w, 100)
        /\ (arg.arr = <<10, 20, 30, 40>> /\ arg.p = 25) => ret = JsNum(35, 2)
        /\ LET iqr == JsSub(calculatePercentile(arg.arr, 75),
                            calculatePercentile(arg.arr, 25))
           IN  IsFinite(iqr) /\ ~JsLt(iqr, JsInt(0))

C7_Witness ==
    /\ fn = "calculatePercentile"
    /\ arg.arr = <<400, 100, 300, 200>>
    /\ arg.p = 25
    /\ ret = JsInt(175)

\* C8: for any sample, calculatePercentile(sample, 50) equals
\* calculateMedian(sample).
C8_PercentileFiftyIsMedian ==
    (fn = "calculatePercentile" /\ arg.p = 50) => ret = calculateMedian(arg.arr)

(***************************************************************************)
(* Investment scoring.                                                     *)
(***************************************************************************)
Scored == currentProperties[arg.i]

\* twice the median of a non-empty sample, by counting
TwiceMedian(arr) ==
    LET n == Len(arr)
    IN  IF n % 2 = 1 THEN 2 * Kth(arr, (n + 1) \div 2)
        ELSE Kth(arr, n \div 2) + Kth(arr, n \div 2 + 1)

IsIntIn(a, lo, hi) == a.k = "num" /\ a.d = 1 /\ a.n >= lo /\ a.n <= hi

\* C1: calculateInvestmentScore returns an integer total in [0,100] that is
\* the sum of its five sub-scores, each within its maximum of 30, 20, 25, 15
\* and 10 points.
C1_ScoreIsBoundedSum ==
    (fn = "calculateInvestmentScore") =>
        /\ IsIntIn(ret.score, 0, 100)
        /\ IsIntIn(ret.factors.price, 0, 30)
        /\ IsIntIn(ret.factors.land, 0, 20)
        /\ IsIntIn(ret.factors.features, 0, 25)
        /\ IsIntIn(ret.factors.type, 0, 15)
        /\ IsIntIn(ret.factors.recency, 0, 10)
        /\ ret.score.n = ret.factors.price.n + ret.factors.land.n + ret.factors.features.n
                         + ret.factors.type.n + ret.factors.recency.n

\* every sub-score at its maximum, the features capped from 29
C1_Witness ==
    /\ fn = "calculateInvestmentScore"
    /\ ret.score = JsInt(100)
    /\ Scored.attributes.bedrooms = JsInt(3)
    /\ Scored.attributes.garage_spaces = JsInt(2)

\* C3: the price factor is decided by ratio = record price / median of all
\* positive prices of the current result set: < 0.8 gives 30, < 1.0 gives 25,
\* < 1.2 gives 15 and anything else gives 5.
C3_PriceFactorByRatio ==
    (fn = "calculateInvestmentScore") =>
        LET pos  == PositivePrices(currentProperties)
            p    == Scored.price
            m2   == TwiceMedian(pos)
        IN  ret.factors.price =
                IF p.k # "num" \/ pos = <<>> THEN JsInt(5)
                ELSE IF 20 * p.n < 8 * m2 THEN JsInt(30)
                ELSE IF 20 * p.n < 10 * m2 THEN JsInt(25)
                ELSE IF 20 * p.n < 12 * m2 THEN JsInt(15)
                ELSE JsInt(5)

\* a price of 100 against the median 125 of {100, 150}: ratio 0.8 exactly
C3_Witness ==
    /\ fn = "calculateInvestmentScore"
    /\ Scored.price = JsInt(100)
    /\ TwiceMedian(PositivePrices(currentProperties)) = 250
    /\ ret.factors.price = JsInt(25)

\* C5: the recency factor is 10 when fewer than 7 days lie between the listing
\* date and the clock, 7 when fewer than 30 days, 3 otherwise; a record with no
\* listing date gets 3.
C5_RecencyByElapsedDays ==
    (fn = "calculateInvestmentScore") =>
        LET date == Scored.listing_date
        IN  ret.factors.recency =
                IF date = Undefined THEN JsInt(3)
                ELSE IF now - date.n < 7 * HoursPerDay THEN JsInt(10)
                ELSE IF now - date.n < 30 * HoursPerDay THEN JsInt(7)
                ELSE JsInt(3)

\* exactly 7 days after the listing
C5_Witness ==
    /\ fn = "calculateInvestmentScore"
    /\ Scored.listing_date # Undefined
    /\ now - Scored.listing_date.n = 7 * HoursPerDay
    /\ ret.factors.recency = JsInt(7)

C5_WitnessNoDate ==
    /\ fn = "calculateInvestmentScore"
    /\ Scored.listing_date = Undefined
    /\ ret.factors.recency = JsInt(3)

(***************************************************************************)
(* Land size.                                                              *)
(***************************************************************************)
\* the land-size attribute as text
LandText(land) ==
    IF land.t = "num" THEN NumberToString(land.v)
    ELSE IF land.t = "str" THEN land.v ELSE <<>>

\* where the first decimal/integer token of a text starts: at its first digit,
\* or at a dot that a digit follows directly; 0 when the text holds no digit
TokenStart(s) ==
    LET starts == {i \in DOMAIN s :
                      \/ s[i] \in Digits
                      \/ s[i] = "." /\ i < Len(s) /\ s[i + 1] \in Digits}
    IN  IF starts = {} THEN 0 ELSE CHOOSE i \in starts : \A j \in starts : i <= j

\* the value of the first decimal/integer token, 0 for an absent or
\* unparseable attribute
FirstTokenValue(land) ==
    LET s == LandText(land)
        i == TokenStart(s)
    IN  IF i = 0 THEN JsInt(0)
        ELSE LET rest    == SubSeq(s, i, Len(s))
                 whole   == TakeWhile(rest, Digits)
                 after   == SubSeq(rest, Len(whole) + 1, Len(rest))
                 decimal == IF after # <<>> /\ Head(after) = "."
                            THEN TakeWhile(Tail(after), Digits) ELSE <<>>
             IN  JsNum(DigitsValue(whole) * Pow10(Len(decimal)) + DigitsValue(decimal),
                       Pow10(Len(decimal)))

LandPoints(size) ==
    IF JsGt(size, JsInt(700)) THEN JsInt(20)
    ELSE IF JsGt(size, JsInt(600)) THEN JsInt(15)
    ELSE IF JsGt(size, JsInt(500)) THEN JsInt(10)
    ELSE JsInt(5)

\* C4: the land factor is 20, 15, 10 or 5 for a parsed land size > 700, > 600,
\* > 500 or otherwise, where parseLandSize yields the value of the first
\* decimal/integer token of the attribute and 0 for every absent or
\* unparseable attribute.
C4_LandFactorByFirstToken ==
    /\ (fn = "parseLandSize") =>
           ret = FirstTokenValue(Scored.attributes.land_size)
    /\ (fn = "calculateInvestmentScore") =>
           ret.factors.land = LandPoints(FirstTokenValue(Scored.attributes.land_size))

\* the part of C4 the code keeps: the thresholds applied to what parseLandSize
\* returns, and the first token whenever no dot precedes the first digit run
C4_LandFactorThresholds ==
    /\ (fn = "calculateInvestmentScore") =>
           ret.factors.land = LandPoints(parseLandSize(Scored.attributes.land_size))
    /\ (fn = "parseLandSize" /\ ~IsNaN(ret)) =>
           ret = FirstTokenValue(Scored.attributes.land_size)

(***************************************************************************)
(* Rankings.                                                               *)
(***************************************************************************)
ScoreOf(i) == calculateInvestmentScore(currentProperties[i], currentProperties, now).score.n

Min(a, b) == IF a < b THEN a ELSE b

\* a ranking of the first `size` records by score: distinct records, each with
\* its own score, in descending score order, equal scores in list order, and
\* no record left out that would rank before the last one listed
IsRanking(cards, size) ==
    /\ Len(cards) = Min(size, Len(currentProperties))
    /\ \A j \in DOMAIN cards :
           /\ cards[j].index \in DOMAIN currentProperties
           /\ cards[j].investmentScore.score = JsInt(ScoreOf(cards[j].index))
    /\ \A j, k \in DOMAIN cards :
           j < k => \/ ScoreOf(cards[j].index) > ScoreOf(cards[k].index)
                    \/ /\ ScoreOf(cards[j].index) = ScoreOf(cards[k].index)
                       /\ cards[j].index < cards[k].index
    /\ \A i \in DOMAIN currentProperties :
           (\A j \in DOMAIN cards : cards[j].index # i) =>
               LET last == cards[Len(cards)].index
               IN  \/ ScoreOf(i) < ScoreOf(last)
                   \/ ScoreOf(i) = ScoreOf(last) /\ last < i

ScoringMedian == calculateMedian(PositivePrices(currentProperties))

\* C9: the statistics filter out non-positive and absent values, and when the
\* filtered sample is empty every statistic - mean, median, standard
\* deviation, quartiles, IQR, price range, coefficient of variation, skewness
\* and the median used by investment scoring - is a zero/neutral default,
\* never NaN or an infinity.
C9_EmptySampleDefaults ==
    (statisticalAnalysis.shown /\ PositivePrices(currentProperties) = <<>>) =>
        /\ statisticalAnalysis.mean = JsInt(0)
        /\ statisticalAnalysis.stdDev = JsInt(0)
        /\ statisticalAnalysis.q1 = JsInt(0)
        /\ statisticalAnalysis.q3 = JsInt(0)
        /\ statisticalAnalysis.iqr = JsInt(0)
        /\ statisticalAnalysis.skewness = JsInt(0)
        /\ IsFinite(statisticalAnalysis.median)
        /\ IsFinite(statisticalAnalysis.priceRange)
        /\ IsFinite(statisticalAnalysis.cv)
        /\ IsFinite(ScoringMedian)

\* what the code does keep on an empty sample
C9_GuardedStatistics ==
    (statisticalAnalysis.shown /\ PositivePrices(currentProperties) = <<>>) =>
        /\ statisticalAnalysis.mean = JsInt(0)
        /\ statisticalAnalysis.stdDev = JsInt(0)
        /\ statisticalAnalysis.q1 = JsInt(0)
        /\ statisticalAnalysis.q3 = JsInt(0)
        /\ statisticalAnalysis.iqr = JsInt(0)
        /\ statisticalAnalysis.skewness = JsInt(0)
        /\ statisticalAnalysis.median = NaN
        /\ statisticalAnalysis.priceRange = NegInf
        /\ statisticalAnalysis.cv = NaN

(***************************************************************************)
(* Outliers.                                                               *)
(***************************************************************************)
\* four times the p-th percentile (p = 25 or 75) of a sample, by counting
FourTimesQuartile(arr, p) ==
    IF arr = <<>> THEN 0
    ELSE LET idx4 == (p \div 25) * (Len(arr) - 1)
             lo   == idx4 \div 4
             w    == idx4 % 4
         IN  IF w = 0 THEN 4 * Kth(arr, lo + 1)
             ELSE Kth(arr, lo + 1) * (4 - w) + Kth(arr, lo + 2) * w

\* eight times the fences Q1 - 1.5 * IQR and Q3 + 1.5 * IQR
EightTimesLowerFence ==
    LET pos == PositivePrices(currentProperties)
    IN  5 * FourTimesQuartile(pos, 25) - 3 * FourTimesQuartile(pos, 75)

EightTimesUpperFence ==
    LET pos == PositivePrices(currentProperties)
    IN  5 * FourTimesQuartile(pos, 75) - 3 * FourTimesQuartile(pos, 25)

HasPrice(i)  == currentProperties[i].price.k = "num"
PriceAt(i)   == currentProperties[i].price.n
Flagged(idx) == {idx[j] : j \in DOMAIN idx}

ExampleOutliers ==
    (currentProperties = ExampleResultSet) =>
        /\ outlierAnalysis.overpriced = <<6>>
        /\ outlierAnalysis.undervalued = <<>>

\* C10 as stated: a record is undervalued exactly when its price is strictly
\* below Q1 - 1.5*IQR and overpriced exactly when strictly above Q3 + 1.5*IQR,
\* Q1 and Q3 by calculatePercentile over the positive prices; of
\* [100,102,98,101,99,500] only 500 is flagged, as overpriced.
C10_OutliersBeyondFences ==
    outlierAnalysis.shown =>
        /\ Flagged(outlierAnalysis.undervalued) =
               {i \in DOMAIN currentProperties :
                   HasPrice(i) /\ 8 * PriceAt(i) < EightTimesLowerFence}
        /\ Flagged(outlierAnalysis.overpriced) =
               {i \in DOMAIN currentProperties :
                   HasPrice(i) /\ 8 * PriceAt(i) > EightTimesUpperFence}
        /\ ExampleOutliers

\* C10 amended: a record is undervalued exactly when it has a non-zero price
\* strictly below Q1 - 1.5*IQR (a record whose price is 0 or absent is never
\* flagged) and overpriced exactly when its price is strictly above
\* Q3 + 1.5*IQR; the rest as stated.
C10_PricedOutliersBeyondFences ==
    outlierAnalysis.shown =>
        /\ Flagged(outlierAnalysis.undervalued) =
               {i \in DOMAIN currentProperties :
                   HasPrice(i) /\ PriceAt(i) # 0 /\ 8 * PriceAt(i) < EightTimesLowerFence}
        /\ Flagged(outlierAnalysis.overpriced) =
               {i \in DOMAIN currentProperties :
                   HasPrice(i) /\ 8 * PriceAt(i) > EightTimesUpperFence}
        /\ ExampleOutliers

\* a price of 0 below a positive lower fence, beside a flagged record
C10_Witness ==
    /\ outlierAnalysis.shown
    /\ EightTimesLowerFence > 0
    /\ currentProperties[1].price = JsInt(0)
    /\ outlierAnalysis.undervalued = <<Len(currentProperties)>>

C10_WitnessExample ==
    /\ outlierAnalysis.shown
    /\ currentProperties = ExampleResultSet
    /\ outlierAnalysis.overpriced = <<6>>

\* the cards of one kind in the rendered panel
CardsOf(kind) ==
    {j \in DOMAIN outlierAnalysis.html : outlierAnalysis.html[j].card = kind}

\* the panel reports the first record of `beyond` (none when it is empty)
ReportsFirstOf(kind, beyond) ==
    IF beyond = {} THEN CardsOf(kind) = {}
    ELSE /\ Cardinality(CardsOf(kind)) = 1
         /\ \A j \in CardsOf(kind) :
                /\ outlierAnalysis.html[j].prop \in beyond
                /\ \A i \in beyond : outlierAnalysis.html[j].prop <= i

\* the message stands alone, and exactly when neither side has a record
MessageInstead(under, over) ==
    /\ (CardsOf("no-outliers") # {}) <=> (under = {} /\ over = {})
    /\ (CardsOf("no-outliers") # {}) => Len(outlierAnalysis.html) = 1

\* C11 as stated: at most one undervalued and one overpriced record are
\* reported, each the first record in list order whose price is beyond that
\* fence, and the 'no statistical outliers' message is shown instead when no
\* record lies beyond either fence.
C11_FirstBeyondFenceReported ==
    outlierAnalysis.shown =>
        LET under == {i \in DOMAIN currentProperties :
                         HasPrice(i) /\ 8 * PriceAt(i) < EightTimesLowerFence}
            over  == {i \in DOMAIN currentProperties :
                         HasPrice(i) /\ 8 * PriceAt(i) > EightTimesUpperFence}
        IN  /\ ReportsFirstOf("undervalued", under)
            /\ ReportsFirstOf("overpriced", over)
            /\ MessageInstead(under, over)

\* C11 amended: the record reported on each side is the first record in list
\* order with a non-zero price beyond that fence (a record whose price is 0 or
\* absent is passed over), at most one per side, and the message is shown
\* exactly when no such record exists.
C11_FirstPricedBeyondFenceReported ==
    outlierAnalysis.shown =>
        LET under == {i \in DOMAIN currentProperties :
                         HasPrice(i) /\ PriceAt(i) # 0
                                     /\ 8 * PriceAt(i) < EightTimesLowerFence}
            over  == {i \in DOMAIN currentProperties :
                         HasPrice(i) /\ 8 * PriceAt(i) > EightTimesUpperFence}
        IN  /\ ReportsFirstOf("undervalued", under)
            /\ ReportsFirstOf("overpriced", over)
            /\ MessageInstead(under, over)

\* two records below the lower fence and two above the upper one: the cards
\* name the first of each (2 and 30), not the most extreme (1 and 50)
C11_Witness ==
    /\ outlierAnalysis.shown
    /\ outlierAnalysis.undervalued = <<2, 5>>
    /\ outlierAnalysis.overpriced = <<3, 6>>
    /\ outlierAnalysis.html = <<[card |-> "undervalued", prop |-> 2],
                                [card |-> "overpriced", prop |-> 3]>>

C11_WitnessMessage ==
    /\ outlierAnalysis.shown
    /\ Len(currentProperties) > 1
    /\ outlierAnalysis.html = <<[card |-> "no-outliers", prop |-> 0]>>

(***************************************************************************)
(* Mortgage.                                                               *)
(***************************************************************************)
RECURSIVE IntPow(_, _)
IntPow(b, e) == IF e = 0 THEN 1 ELSE b * IntPow(b, e - 1)

\* the loan P = price - deposit, the monthly rate r and the number n of
\* payments of the calculation displayed, from the fields it read
LoanP ==
    LET price == IF mortgage.mortgagePrice.k = "num" THEN mortgage.mortgagePrice.n ELSE 0
    IN  JsNum(price * (100 - mortgage.mortgageDeposit.n), 100)
RateR == JsNum(mortgage.mortgageRate.n, 100 * 12)
PaymentsN == mortgage.mortgageTerm * 12

\* what is still owed after k payments: each month the balance earns r and
\* one payment is taken off
RECURSIVE Balance(_)
Balance(k) ==
    IF k = 0 THEN LoanP
    ELSE JsSub(JsMul(Balance(k - 1), JsAdd(JsInt(1), RateR)), mortgage.monthlyPayment)

\* P * r * (1+r)^n / ((1+r)^n - 1) for r = num/den > 0, by whole powers
AnnuityPayment ==
    LET up   == IntPow(RateR.n + RateR.d, PaymentsN)
        down == IntPow(RateR.d, PaymentsN)
    IN  JsMul(LoanP, JsNum(RateR.n * up, RateR.d * (up - down)))

\* C12: with P = price - deposit, r = annualRatePercent/100/12 and
\* n = years*12 the monthly payment is P*r*(1+r)^n / ((1+r)^n - 1) when r > 0
\* (the payment that brings the balance to 0 after n months) and P/n when
\* r = 0, never a division by zero; totalRepayment = payment*n and
\* totalRepayment - totalInterest = P, so at r = 0 the total interest is 0.
C12_MortgagePayment ==
    mortgage.calculated =>
        /\ mortgage.loanAmount = LoanP
        /\ IsNum(mortgage.monthlyPayment)
        /\ RateR.n > 0 =>
               /\ mortgage.monthlyPayment = AnnuityPayment
               /\ Balance(PaymentsN) = JsInt(0)
        /\ RateR.n = 0 =>
               /\ JsMul(mortgage.monthlyPayment, JsInt(PaymentsN)) = LoanP
               /\ mortgage.totalInterest = JsInt(0)
        /\ mortgage.totalRepayment = JsMul(mortgage.monthlyPayment, JsInt(PaymentsN))
        /\ JsSub(mortgage.totalRepayment, mortgage.totalInterest) = LoanP

\* a loan of 80 (price 100, deposit 20%) at 1200% a year over one year
C12_Witness ==
    /\ mortgage.calculated
    /\ mortgage.loanAmount = JsInt(80)
    /\ mortgage.mortgageRate = JsInt(1200)
    /\ mortgage.monthlyPayment = JsNum(80 * 4096, 4095)
    /\ mortgage.totalInterest = JsSub(JsNum(80 * 4096 * 12, 4095), JsInt(80))

\* the same loan at a rate of 0 over three years
C12_WitnessZeroRate ==
    /\ mortgage.calculated
    /\ mortgage.loanAmount = JsInt(80)
    /\ mortgage.mortgageRate = JsInt(0)
    /\ mortgage.mortgageTerm = 3
    /\ mortgage.monthlyPayment = JsNum(80, 36)
    /\ mortgage.totalInterest = JsInt(0)

(***************************************************************************)
(* Cash flow.                                                              *)
(***************************************************************************)
\* a field as the whole number it holds, an empty field as 0
FieldValue(field) == IF field.k = "num" THEN field.n ELSE 0

\* a thousand times the annual income and the annual expenses of the
\* calculation displayed; the fee is in thousandths: 7.5% is 75
IncomeTimes1000 == 1000 * 52 * FieldValue(cashflow.fields.weeklyRent)
ExpensesTimes1000 ==
    LET f     == cashflow.fields
        feeTh == (f.managementFee.n * 10) \div f.managementFee.d
    IN  1000 * (12 * FieldValue(f.mortgagePayment) + FieldValue(f.councilRates)
                  + 4 * FieldValue(f.strataFees) + FieldValue(f.insurance)
                  + FieldValue(f.maintenance))
            + 52 * FieldValue(f.weeklyRent) * feeTh

\* C13: annualIncome = weeklyRent*52, annualExpenses = mortgagePayment*12 +
\* councilRates + strataFees*4 + insurance + maintenance +
\* annualIncome*managementFeePercent/100; the difference is classified
\* positive if > 0, negative if < 0, breakeven if exactly 0, and after every
\* recalculation the status indicator carries exactly the class of the latest
\* result: 'positive', 'negative', or neither for breakeven.
C13_CashFlowStatus ==
    cashflow.calculated =>
        /\ cashflow.annualIncome = JsNum(IncomeTimes1000, 1000)
        /\ cashflow.annualExpenses = JsNum(ExpensesTimes1000, 1000)
        /\ cashflow.annualCashFlow = JsNum(IncomeTimes1000 - ExpensesTimes1000, 1000)
        /\ IncomeTimes1000 > ExpensesTimes1000 =>
               cashflow.status = "Cashflow Positive" /\ cashflow.classList = {"positive"}
        /\ IncomeTimes1000 < ExpensesTimes1000 =>
               cashflow.status = "Cashflow Negative" /\ cashflow.classList = {"negative"}
        /\ IncomeTimes1000 = ExpensesTimes1000 =>
               cashflow.status = "Breakeven" /\ cashflow.classList = {}

\* weeklyRent 600 against expenses of exactly 31200: breakeven
C13_Witness ==
    /\ cashflow.calculated
    /\ cashflow.annualIncome = JsInt(31200)
    /\ cashflow.annualExpenses = JsInt(31200)
    /\ cashflow.status = "Breakeven"
    /\ cashflow.classList = {}

\* expenses of 30000: positive, with an annual cash flow of 1200
C13_WitnessPositive ==
    /\ cashflow.calculated
    /\ cashflow.annualExpenses = JsInt(30000)
    /\ cashflow.annualCashFlow = JsInt(1200)
    /\ cashflow.classList = {"positive"}

C13_WitnessNegative ==
    /\ cashflow.calculated
    /\ cashflow.annualIncome = JsInt(31200)
    /\ cashflow.annualExpenses = JsInt(36000)
    /\ cashflow.classList = {"negative"}

(***************************************************************************)
(* Affordability.                                                          *)
(***************************************************************************)
\* 200 times the target price and 200 times maxBorrowing + availableDeposit of
\* the calculation displayed: twice the amount available for the loan is
\* income / 20 - 2 * debts - expenses, and the loan factor is 15821 / 100
TargetTimes200 == 200 * FieldValue(affordability.fields.targetPrice)
MaxPriceTimes200 ==
    LET f == affordability.fields
    IN  (FieldValue(f.householdIncome) \div 20 - 2 * FieldValue(f.monthlyDebts)
            - FieldValue(f.monthlyExpenses)) * 15821
        + 200 * FieldValue(f.availableDeposit)

\* maxPropertyPrice, the three thresholds, the shortfall and the one class
C14_VerdictThresholds ==
    affordability.calculated =>
        /\ affordability.maxPropertyPrice = JsNum(MaxPriceTimes200, 200)
        /\ affordability.verdict =
               (IF 5 * TargetTimes200 <= 4 * MaxPriceTimes200 THEN "can-afford"
                ELSE IF TargetTimes200 <= MaxPriceTimes200 THEN "marginal"
                ELSE "cannot-afford")
        /\ affordability.verdict = "cannot-afford" =>
               affordability.shortfall = JsNum(TargetTimes200 - MaxPriceTimes200, 200)
        /\ affordability.classList = {affordability.verdict}

\* no 'comfortable' or 'marginal' verdict for a target above maxPropertyPrice
C14_NeverAboveMaximum ==
    affordability.calculated =>
        (affordability.verdict \in {"can-afford", "marginal"} =>
            TargetTimes200 <= MaxPriceTimes200)

\* C14: maxPropertyPrice = maxBorrowing + availableDeposit; the verdict is
\* 'comfortable' when targetPrice <= 80% of maxPropertyPrice, 'marginal' when
\* targetPrice <= maxPropertyPrice and 'out of reach' otherwise, with the
\* shortfall targetPrice - maxPropertyPrice; after every recalculation exactly
\* one of the three verdict classes is set, and a 'comfortable' or 'marginal'
\* verdict is never given to a target price above maxPropertyPrice.
C14_AffordabilityVerdict == C14_VerdictThresholds /\ C14_NeverAboveMaximum

\* for a target price that is not negative the verdict is never above the maximum
C14_NeverAboveMaximumFromZero ==
    (affordability.calculated /\ TargetTimes200 >= 0) =>
        (affordability.verdict \in {"can-afford", "marginal"} =>
            TargetTimes200 <= MaxPriceTimes200)

(***************************************************************************)
(* Records are inputs: the handlers never reorder or change the list.      *)
(***************************************************************************)
\* the order each choice of the sort menu asks for, as a whole number that
\* grows along the grid
GridRank(sortBy, property) ==
    LET price == IF property.price.k = "num" THEN property.price.n ELSE 0
        beds  == IF property.attributes.bedrooms.k = "num"
                 THEN property.attributes.bedrooms.n ELSE 0
    IN  CASE sortBy = "price-high" -> -price
          [] sortBy = "price-low"  -> price
          [] sortBy = "bedrooms"   -> -beds
          [] sortBy = "newest"     -> -property.listing_date.n
          [] OTHER                 -> 0

\* the records of `list` with the rank v, in the order of the list
RECURSIVE WithRank(_, _, _)
WithRank(list, sortBy, v) ==
    IF list = <<>> THEN <<>>
    ELSE (IF GridRank(sortBy, Head(list)) = v THEN <<Head(list)>> ELSE <<>>)
             \o WithRank(Tail(list), sortBy, v)

\* the grid holds the records of the current list, in ascending rank, the
\* records of equal rank in the order of the list
GridSortedFromList ==
    propertiesGrid.sortBy # "none" =>
        LET cards == propertiesGrid.cards
            by    == propertiesGrid.sortBy
        IN  /\ Len(cards) = Len(currentProperties)
            /\ \A i, j \in DOMAIN cards :
                   i < j => GridRank(by, cards[i]) <= GridRank(by, cards[j])
            /\ \A i \in DOMAIN currentProperties :
                   LET v == GridRank(by, currentProperties[i])
                   IN  WithRank(cards, by, v) = WithRank(currentProperties, by, v)

\* a step changes the list only by storing the result of a search, changes
\* timelineData only by generating the timeline, and sorting again by the
\* same choice gives the same grid
FrameStep ==
    /\ \/ currentProperties' = currentProperties
       \/ \E properties \in FrameResultSets : DisplayResults(properties)
    /\ \/ timeline'.timelineData = timeline.timelineData
       \/ SwitchPlaygroundFeatureTimeline
    /\ (propertiesGrid.sortBy # "none" /\ propertiesGrid'.sortBy = propertiesGrid.sortBy)
           => propertiesGrid' = propertiesGrid

\* C15: no statistics, scoring, sorting or analysis operation changes the
\* order or the contents of the current property list, and sorting again with
\* the same list gives the same result: the result is the stable sort of the
\* list as the search stored it.
C15_RecordsNeverMutated == [][FrameStep]_vars /\ []GridSortedFromList

\* sorted by price, highest first: the grid is reordered, the list is not
C15_Witness ==
    /\ currentProperties = <<House100, Unit100, House150>>
    /\ propertiesGrid = [sortBy |-> "price-high",
                         cards |-> <<House150, House100, Unit100>>]
    /\ investmentScores # <<>>
    /\ timeline.generated

(***************************************************************************)
(* The swipe decisions.                                                    *)
(***************************************************************************)
\* the properties the history records with the given direction, in order
RECURSIVE DecidedAs(_, _)
DecidedAs(history, direction) ==
    IF history = <<>> THEN <<>>
    ELSE (IF Head(history).direction = direction
          THEN <<Head(history).property>> ELSE <<>>)
             \o DecidedAs(Tail(history), direction)

\* the k-th decision recorded is the decision on the k-th card of the stack
HistoryFollowsStack ==
    \A k \in DOMAIN swipeHistory :
        k \in DOMAIN swipeStack /\ swipeHistory[k].property = swipeStack[k]

\* every undo step takes the last swiped property out of the list of its
\* direction, leaves the other entries of both lists, and shows that property
\* as the current card
UndoReverses ==
    LET lastSwipe == swipeHistory[Len(swipeHistory)]
        liked     == lastSwipe.direction = "right"
        before    == IF liked THEN likedProperties ELSE passedProperties
        after     == IF liked THEN likedProperties' ELSE passedProperties'
    IN  /\ \E i \in DOMAIN before :
               before[i] = lastSwipe.property /\ after = Splice(before, i - 1)
        /\ liked => passedProperties' = passedProperties
        /\ ~liked => likedProperties' = likedProperties
        /\ swipeStackEl' = "cards"
        /\ currentCard'.attached
        /\ CardAt(swipeStack', currentSwipeIndex') = lastSwipe.property

\* C16: after any sequence of like, pass, remove-from-liked and undo
\* operations, undoSwipe removes exactly the most recently swiped property from
\* the liked or the passed list according to the direction of that swipe,
\* leaves every other liked and passed entry unchanged, and makes that property
\* the current card again.
C16_UndoReversesLastSwipe == [][undoSwipe => UndoReverses]_vars

\* every card advance has run and every card was decided once
SwipesSettled ==
    /\ advanceTimers = 0
    /\ HistoryFollowsStack
    /\ currentSwipeIndex = Len(swipeHistory)

\* an undo step takes no property other than the last swiped one out of the
\* liked and passed lists
UndoKeepsOthers ==
    LET lastSwipe == swipeHistory[Len(swipeHistory)]
        Kept(before, after) ==
            \/ after = before
            \/ \E i \in DOMAIN before :
                   before[i] = lastSwipe.property /\ after = Splice(before, i - 1)
    IN  /\ Kept(likedProperties, likedProperties')
        /\ Kept(passedProperties, passedProperties')

\* the undo steps taken when every card advance has run and every card was
\* decided once: what is left is a removal from the liked list since the swipe
C16_UndoKeepsOthersAfterRemoval ==
    [][(undoSwipe /\ SwipesSettled) => UndoKeepsOthers]_vars

\* and for those where, besides, the liked list still holds every like
C16_UndoReversesWhenSettled ==
    [][(undoSwipe /\ SwipesSettled
           /\ likedProperties = DecidedAs(swipeHistory, "right")) => UndoReverses]_vars

\* C17: from a fresh stack of N properties every like or pass records the
\* property shown and advances one card: the k-th decision is the decision on
\* the k-th property of the stack, so each property is recorded once, in the
\* list of its direction, none twice and none skipped, and the completion
\* message is shown once the N-th decision has advanced.
C17_EachPropertyDecidedOnce ==
    /\ HistoryFollowsStack
    /\ likedProperties = DecidedAs(swipeHistory, "right")
    /\ passedProperties = DecidedAs(swipeHistory, "left")
    /\ advanceTimers = 0 => currentSwipeIndex = Len(swipeHistory)
    /\ (advanceTimers = 0 /\ Len(swipeHistory) = Len(swipeStack))
           => swipeStackEl = "all-done"

\* what does hold of the decisions: one record and one card advance each, in
\* the list of the direction, and the completion message past the last card
C17_OneRecordOneAdvance ==
    /\ Len(swipeHistory) = currentSwipeIndex + advanceTimers
    /\ likedProperties = DecidedAs(swipeHistory, "right")
    /\ passedProperties = DecidedAs(swipeHistory, "left")
    /\ (swipeStackEl = "all-done") = (currentSwipeIndex >= Len(swipeStack))

\* a like or pass made when no card advance is pending records the card shown
C17_DecisionAfterAdvance ==
    [][((swipeLeft \/ swipeRight \/ \E direction \in {"left", "right"} :
             completeSwipe(direction)) /\ advanceTimers = 0)
          => /\ swipeHistory'[Len(swipeHistory')].property
                    = swipeStack[currentCard.propertyIndex + 1]
             /\ currentCard.propertyIndex = currentSwipeIndex]_vars

(***************************************************************************)
(* The comparison list.                                                    *)
(***************************************************************************)
HasStreet(property) == Street(property).k = "str"

\* the property is an entry of the list, or an entry has its street address
StreetPresent(property) ==
    \E i \in DOMAIN comparisonProperties :
        \/ comparisonProperties[i] = property
        \/ /\ HasStreet(comparisonProperties[i])
           /\ HasStreet(property)
           /\ Street(comparisonProperties[i]).s = Street(property).s

\* at most 2 entries, no two of them with the same street address
ComparisonBounded ==
    /\ Len(comparisonProperties) <= 2
    /\ \A i, j \in DOMAIN comparisonProperties :
           (i # j /\ HasStreet(comparisonProperties[i]) /\ HasStreet(comparisonProperties[j]))
               => Street(comparisonProperties[i]).s # Street(comparisonProperties[j]).s

\* what the add of a property does to the list
AddOutcome(property) ==
    IF Len(comparisonProperties) >= 2 \/ StreetPresent(property)
    THEN addToComparison(property) = comparisonProperties
    ELSE addToComparison(property) = Append(comparisonProperties, property)

\* C18: the comparison list holds at most 2 properties and never two with the
\* same street address; the add of any property a popup offers leaves the list
\* unchanged when 2 are present or when the property, or its street address,
\* is present, and appends the property when it is not yet present and fewer
\* than 2 are.
C18_ComparisonList ==
    /\ ComparisonBounded
    /\ \A marker \in shownMarkers : AddOutcome(mapMarkers[marker])

\* the same for the adds of the properties that have a street address
C18_ComparisonListWithStreet ==
    /\ ComparisonBounded
    /\ \A marker \in shownMarkers :
           HasStreet(mapMarkers[marker]) => AddOutcome(mapMarkers[marker])

\* no two entries without a street address either
C18_OneWithoutStreet ==
    \A i, j \in DOMAIN comparisonProperties :
        (~HasStreet(comparisonProperties[i]) /\ ~HasStreet(comparisonProperties[j])) => i = j

(***************************************************************************)
(* The map filters.                                                        *)
(***************************************************************************)
\* C19: after any sequence of min-slider inputs, max-slider inputs and filter
\* resets, currentMapFilters.minPrice <= currentMapFilters.maxPrice and both
\* slider positions equal the filter values in use.
C19_SlidersSynced ==
    /\ JsLe(currentMapFilters.minPrice, currentMapFilters.maxPrice)
    /\ JsInt(priceSliders.min.value) = currentMapFilters.minPrice
    /\ JsInt(priceSliders.max.value) = currentMapFilters.maxPrice

\* the first half on its own
C19_MinNotAboveMax == JsLe(currentMapFilters.minPrice, currentMapFilters.maxPrice)

\* each slider stands at its filter value as far as its range reaches
C19_SyncedWithinRange ==
    /\ IsNum(currentMapFilters.minPrice) /\ currentMapFilters.minPrice.d = 1
    /\ IsNum(currentMapFilters.maxPrice) /\ currentMapFilters.maxPrice.d = 1
    /\ priceSliders.min.value = RangeValue(priceSliders.min, currentMapFilters.minPrice.n)
    /\ priceSliders.max.value = RangeValue(priceSliders.max, currentMapFilters.maxPrice.n)

\* the badge is the number of markers that pass the price and type filters,
\* and these are the markers on the map
CountBadge ==
    /\ visiblePropertyCount =
           Cardinality({i \in DOMAIN mapMarkers :
                           PassesFilters(mapMarkers[i], currentMapFilters)})
    /\ shownMarkers = {i \in DOMAIN mapMarkers :
                           PassesFilters(mapMarkers[i], currentMapFilters)}

\* what a reset of the filters makes of the current state: the markers it
\* leaves on the map and the count it writes
AfterReset ==
    filterMapMarkers(mapMarkers, ResetFilters(currentProperties, currentMapFilters))

\* C20: after resetMapFilters every property that has a marker passes the
\* filters, whatever its price or type, and the visible-property count is the
\* number of markers; in every state the count badge is the number of markers
\* that pass the current price and type filters.
C20_ResetShowsAll ==
    /\ CountBadge
    /\ AfterReset.shownMarkers = DOMAIN mapMarkers
    /\ AfterReset.visiblePropertyCount = Len(mapMarkers)

\* the second half on its own
C20_CountBadge == CountBadge

\* a reset shows the markers of the current list that have a price and one
\* of the four types, when the list has a price at all
C20_ResetShowsPricedOfFourTypes ==
    (mapMarkers = addPropertyMarkers(currentProperties)
        /\ Len(PositivePrices(currentProperties)) > 0)
    => AfterReset.shownMarkers =
           {i \in DOMAIN mapMarkers :
               /\ Truthy(mapMarkers[i].price)
               /\ JsGt(mapMarkers[i].price, JsInt(0))
               /\ mapMarkers[i].property_type \in PropertyTypes}

(***************************************************************************)
(* Timeline playback and the timeline slider.                              *)
(***************************************************************************)
Playing == timeline.timelineAnimationInterval # 0

\* a tick of the running animation
AnimationTick == \E k \in DOMAIN timeline.intervals : TimelineTick(k)

\* the tick ended the animation: the interval is cleared, the button reads Play
EndedCleanly ==
    /\ timeline'.intervals = <<>>
    /\ timeline'.timelineAnimationInterval = 0
    /\ timeline'.playBtn = "Play"
    /\ timeline'.slider = timeline.slider

\* C21: once playTimeline starts an animation, every 100 ms tick advances the
\* slider by 1 (a run started at 100 starts again from 0), until the user
\* pauses it or the slider has reached 100; then the interval is cleared and
\* the button reads Play; never is more than one animation interval active.
C21_PlaybackAdvancesSlider ==
    [][AnimationTick =>
          /\ Len(timeline.intervals) <= 1
          /\ \/ timeline.slider < TicksPerRun /\ timeline'.slider = timeline.slider + 1
                    /\ Len(timeline'.intervals) = 1
             \/ timeline.slider >= TicksPerRun /\ EndedCleanly
             \/ timeline.slider >= TicksPerRun /\ timeline'.slider = 1
                    /\ Len(timeline'.intervals) = 1]_vars

\* at most one interval is active, it is the one timelineAnimationInterval
\* names, and the button reads Pause exactly while it is active
C21_OneInterval ==
    /\ Len(timeline.intervals) <= 1
    /\ Playing <=> timeline.intervals # <<>>
    /\ Playing => timeline.intervals[1].id = timeline.timelineAnimationInterval
    /\ timeline.playBtn = (IF Playing THEN "Pause" ELSE "Play")

\* a tick puts the slider one past the counter of the callback, not one past
\* the slider, and ends the animation once the counter has passed 100
C21_TickFollowsCounter ==
    [][AnimationTick =>
          LET currentValue == timeline.intervals[1].currentValue
          IN  \/ currentValue < TicksPerRun /\ timeline'.slider = currentValue + 1
                    /\ timeline'.intervals[1].currentValue = currentValue + 1
              \/ currentValue >= TicksPerRun /\ EndedCleanly]_vars

\* a click on the button while the animation runs pauses it: the interval is
\* cleared, the slider stays; the next click starts from the slider, or from
\* 0 when the slider stands at 100
C21_PauseAndResume ==
    [][PlayTimeline =>
          IF Playing
          THEN /\ timeline'.intervals = <<>>
               /\ timeline'.playBtn = "Play"
               /\ timeline'.slider = timeline.slider
          ELSE /\ Len(timeline'.intervals) = 1
               /\ timeline'.intervals[1].currentValue =
                      (IF timeline.slider >= TicksPerRun THEN 0 ELSE timeline.slider)
               /\ timeline'.slider = timeline.slider]_vars

\* the listing dates that are dates, the earliest and the latest of them
ListingDates(data) ==
    {data[k].listingDate.n : k \in {i \in DOMAIN data : IsNum(data[i].listingDate)}}
Earliest(data) == CHOOSE d \in ListingDates(data) : \A x \in ListingDates(data) : d <= x
Latest(data)   == CHOOSE d \in ListingDates(data) : \A x \in ListingDates(data) : d >= x

\* the items listed on or before min + percentage % of (max - min)
ListedBy(data, percentage) ==
    {data[k] : k \in {i \in DOMAIN data :
        /\ IsNum(data[i].listingDate)
        /\ (data[i].listingDate.n - Earliest(data)) * 100
               <= percentage * (Latest(data) - Earliest(data))}}

AllDated(data) == \A k \in DOMAIN data : IsNum(data[k].listingDate)

\* the timeline with the slider dragged to `percentage`
Slid(percentage) ==
    updateTimelineBySlider([timeline EXCEPT !.slider = percentage,
                                            !.timelineSliderValue = percentage],
                           percentage)

PropertiesOf(items) == {items[k].property : k \in DOMAIN items}

\* every property of the current result set is in the grid, and the count
\* 'Currently Showing' is the size of the result set
ShowsAll(view) ==
    /\ PropertiesOf(view.grid) = Range(currentProperties)
    /\ view.activeCount = Len(currentProperties)

\* C22: at every slider percentage p the timeline grid shows exactly the
\* properties listed on or before min + p % of (max - min) of the listing
\* dates; what is shown at p is shown at every q >= p; at p = 100, and after
\* resetTimeline, all properties of the current result set are shown and the
\* count 'Currently Showing' is the size of the result set.
C22_GridFollowsSlider ==
    timeline.generated =>
        /\ Range(timeline.grid) = ListedBy(timeline.timelineData, timeline.slider)
        /\ timeline.activeCount = Len(timeline.grid)
        /\ \A p \in 0..(TicksPerRun - 1) : Range(Slid(p).grid) \subseteq Range(Slid(p + 1).grid)
        /\ timeline.slider = TicksPerRun => ShowsAll(timeline)
        /\ ShowsAll(resetTimeline(timeline))

\* dragging the slider to p shows the items of timelineData listed by p and
\* counts them, and a reset shows and counts them all, when every item of
\* timelineData has a listing date
C22_SliderShowsListed ==
    (timeline.generated /\ AllDated(timeline.timelineData)) =>
        /\ \A p \in 0..TicksPerRun :
              /\ Range(Slid(p).grid) = ListedBy(timeline.timelineData, p)
              /\ Slid(p).activeCount = Cardinality(ListedBy(timeline.timelineData, p))
        /\ resetTimeline(timeline).slider = TicksPerRun
        /\ Range(resetTimeline(timeline).grid) = Range(timeline.timelineData)
        /\ resetTimeline(timeline).activeCount = Len(timeline.timelineData)

\* the whole of it holds while every item has a listing date, timelineData
\* was generated from the current result set, and the slider stands where
\* timelineSliderValue says
C22_DatedFreshTimeline ==
    (/\ AllDated(timeline.timelineData)
     /\ PropertiesOf(timeline.timelineData) = Range(currentProperties)
     /\ timeline.slider = timeline.timelineSliderValue)
    => C22_GridFollowsSlider

\* what is shown at p is shown at p + 1, whatever the listing dates
C22_Monotone ==
    timeline.generated =>
        \A p \in 0..(TicksPerRun - 1) : Range(Slid(p).grid) \subseteq Range(Slid(p + 1).grid)

\* an item without a listing date is shown at no percentage
C22_UndatedNeverShown ==
    timeline.generated =>
        \A p \in {0, TicksPerRun} :
            \A k \in DOMAIN Slid(p).grid : IsNum(Slid(p).grid[k].listingDate)

(***************************************************************************)
(* Searches.                                                               *)
(***************************************************************************)
Busy == loadingDiv = "flex" /\ searchBtn.disabled
Idle == loadingDiv = "none" /\ ~searchBtn.disabled

\* no search was started while another was waiting for its response
InTurn == \A i \in DOMAIN searches : ~searches[i].concurrent

\* call i ends in this step, and ends in failure
Ends(i)  == i \in InFlight /\ searches'[i].status # "pending"
Fails(i) == i \in InFlight /\ searches'[i].status = "failed"

\* C23: the search button is disabled and the loading indicator shown
\* exactly while a search is in flight.
C23_BusyWhileInFlight == IF InFlight # {} THEN Busy ELSE Idle

\* it is so as long as the searches were started one after the other
C23_BusyWhileInFlightInTurn == InTurn => C23_BusyWhileInFlight

\* both are set when a search starts; every response, and every failure to
\* get one, hides the indicator and enables the button; on a failure the
\* error message is shown
C23_StartAndEnd ==
    [][/\ (Len(searches') > Len(searches)) => Busy'
       /\ \A i \in DOMAIN searches :
             /\ Ends(i) => Idle'
             /\ Fails(i) => errorDiv'.display = "flex"]_vars

\* on a failure the results section stays hidden, the searches being
\* started one after the other
C23_FailureHidesResultsInTurn ==
    [][\A i \in DOMAIN searches :
          (Fails(i) /\ InTurn) => resultsSection' = "none"]_vars

\* every started search ends, the fetch settling
C23_EverySearchEnds ==
    \A i \in 1..MaxSearches : (i \in InFlight) ~> (i \notin InFlight)

\* the search started last, and what the server answers to a suburb
LastStarted == searches[Len(searches)]
ListOf(suburb) == Server(suburb).data.results

\* C25: when searches overlap, the results finally displayed and stored (the
\* suburb name, currentSuburb, currentProperties, lastFetchedData) are those
\* of the search started last, whatever order the responses arrive in.
C25_LastStartedWins ==
    (searches # <<>> /\ InFlight = {} /\ LastStarted.status = "displayed") =>
        /\ suburbNameSpan = LastStarted.suburb
        /\ currentSuburb = LastStarted.suburb
        /\ lastFetchedData = Server(LastStarted.suburb).data
        /\ ListOf(LastStarted.suburb) # <<>> => currentProperties = ListOf(LastStarted.suburb)

\* it is so when the searches were started one after the other
C25_LastStartedWinsInTurn == InTurn => C25_LastStartedWins

\* what is displayed and stored is what the response that arrived last
\* brought, whenever it was asked for
C25_LastAnsweredWins ==
    [][\A i \in DOMAIN searches :
          (Ends(i) /\ searches'[i].status = "displayed") =>
              /\ suburbNameSpan' = searches[i].suburb
              /\ currentSuburb' = searches[i].suburb
              /\ lastFetchedData' = Server(searches[i].suburb).data
              /\ resultsSection' = "block"]_vars

\* C26: after any sequence of searches, successful, empty or failed, the
\* stored property list is the list returned by the search for the stored
\* suburb, so that an export never puts the name of one suburb on the
\* properties of another.
C26_ListOfStoredSuburb ==
    currentSuburb # "" =>
        exportJSON(currentSuburb, currentProperties)
            = exportJSON(currentSuburb, ListOf(currentSuburb))

\* it is so whenever the search for the stored suburb returned a property
C26_ListOfStoredSuburbUnlessEmpty ==
    (currentSuburb # "" /\ ListOf(currentSuburb) # <<>>) =>
        currentProperties = ListOf(currentSuburb)

\* a failed search changes neither the stored suburb nor the stored list
C26_FailureKeepsBoth ==
    [][\A i \in DOMAIN searches :
          Fails(i) => UNCHANGED <<currentSuburb, currentProperties, lastFetchedData>>]_vars

\* C24: escapeCSV wraps a value that contains a comma, a double quote or a
\* newline in double quotes and doubles its quotes, and returns any other
\* value unchanged, so that every data row of generatePropertiesCSV parses
\* back into the 11 header columns with the original field values.
\* a field value as text; an absent value is the empty text
Written(value) == IF value.tag = "undefined" THEN <<>> ELSE String(value)

Original(properties) ==
    [i \in DOMAIN properties |-> [j \in 1..Len(headers) |-> Written(Fields(properties[i])[j])]]

Special(chars) ==
    includes(chars, Comma) \/ includes(chars, Quote) \/ includes(chars, Newline)

C24_Lossless ==
    /\ fn = "escapeCSV" =>
           ret = IF Special(Written(arg))
                 THEN <<Quote>> \o DoubleQuotes(Written(arg)) \o <<Quote>>
                 ELSE Written(arg)
    /\ fn = "generatePropertiesCSV" =>
           ParseCSV(ret) = <<headers>> \o Original(currentProperties)

\* what escapeCSV returns reads back as the one field it was given
C24_EscapeCSVReadsBack ==
    fn = "escapeCSV" =>
        /\ ret = IF Special(Written(arg))
                 THEN <<Quote>> \o DoubleQuotes(Written(arg)) \o <<Quote>>
                 ELSE Written(arg)
        /\ ParseCSV(ret) = IF Written(arg) = <<>> THEN <<>> ELSE <<<<Written(arg)>>>>

\* the columns that go through escapeCSV read back as they were, the
\* description up to its first DescriptionLimit characters, whenever the
\* columns written without it hold no comma, quote or newline
Escaped == {1, 2, 3, 4, 9, 11}

PlainUnescaped(property) ==
    \A j \in (1..Len(headers)) \ Escaped : ~Special(Written(Fields(property)[j]))

C24_EscapedColumnsReadBack ==
    fn = "generatePropertiesCSV" =>
        \A i \in DOMAIN currentProperties :
            PlainUnescaped(currentProperties[i]) =>
                LET record == ParseCSV(ret)[i + 1]
                IN  /\ Len(record) = Len(headers)
                    /\ \A j \in Escaped \ {11} :
                           record[j] = Written(Fields(currentProperties[i])[j])
                    /\ record[11] = Substring(Written(Fields(currentProperties[i])[11]),
                                              DescriptionLimit)

\* a column written without escapeCSV reads back as it was unless it is 0
C24_UnescapedColumnsReadBack ==
    fn = "generatePropertiesCSV" =>
        \A i \in DOMAIN currentProperties :
            PlainUnescaped(currentProperties[i]) =>
                \A j \in (1..Len(headers)) \ Escaped :
                    ParseCSV(ret)[i + 1][j] = Written(OrEmpty(Fields(currentProperties[i])[j]))

\* C27: whenever no card advance is pending, currentSwipeIndex lies between 0
\* and the length of swipeStack and equals the number of entries of
\* swipeHistory, after any sequence of like, pass, undo, reset and entering
\* the Playground tab again; so undo is possible exactly when a swipe is
\* recorded.
UndoPossible == ~(Len(swipeHistory) = 0 \/ currentSwipeIndex = 0)

C27_IndexCountsHistory ==
    advanceTimers = 0 =>
        /\ 0 <= currentSwipeIndex
        /\ currentSwipeIndex <= Len(swipeStack)
        /\ currentSwipeIndex = Len(swipeHistory)
        /\ UndoPossible <=> swipeHistory # <<>>

\* the index counts the recorded swipes whose card advance has run, up to
\* the balance that entering the tab and resetting leave behind
SwipeBalance == currentSwipeIndex + advanceTimers - Len(swipeHistory)

\* like, pass, card advance, undo and removal keep the balance; it changes
\* only where generatePlayground or resetPlayground puts the index back to 0
C27_BalanceKept ==
    [][SwipeBalance' # SwipeBalance =>
          /\ currentSwipeIndex' = 0
          /\ swipeStack' = currentProperties
          /\ swipeHistory' \in {swipeHistory, <<>>}]_vars

\* the index is never negative, and undo is never possible without a
\* recorded swipe
C27_IndexNotNegative ==
    /\ 0 <= currentSwipeIndex
    /\ UndoPossible => swipeHistory # <<>>

\* C28: after a new search followed by opening the Map View, the ranges of
\* the price sliders, the price filter and the heat-map layer are derived
\* from the current result set: no filter range and no heat-map data
\* computed from a previous result set is applied to the new properties.
MapOfCurrentList == propertyMap /\ mapMarkers = addPropertyMarkers(currentProperties)

ListPriced == Len(PositivePrices(currentProperties)) > 0

HighestPrice == MathMax(PositivePrices(currentProperties)).n

C28_MapNotStale ==
    (MapOfCurrentList /\ ListPriced) =>
        /\ priceSliders.min.max = HighestPrice
        /\ priceSliders.max.max = HighestPrice
        /\ JsLe(currentMapFilters.maxPrice, JsInt(HighestPrice))
        /\ ~heatMapLayer.null => heatMapLayer.heatData = HeatData(currentProperties)

\* the markers are those of the list that was current when the Map View was
\* opened last, every time
C28_MarkersOfOpenedList ==
    [][mapMarkers' # mapMarkers => mapMarkers' = addPropertyMarkers(currentProperties')]_vars

\* the step that creates the map sets the ranges and the filter from the
\* list that is current then
C28_FirstMapFresh ==
    [][(~propertyMap /\ propertyMap' /\ ListPriced') =>
          /\ priceSliders'.min.max = HighestPrice'
          /\ priceSliders'.max.max = HighestPrice'
          /\ currentMapFilters'.maxPrice = JsInt(HighestPrice')
          /\ currentMapFilters'.minPrice = MathMin(PositivePrices(currentProperties'))]_vars

\* the step that creates the heat-map layer computes it from the list that
\* is current then, and no later step changes it
C28_HeatLayerMadeOnce ==
    [][/\ (heatMapLayer.null /\ ~heatMapLayer'.null) =>
              heatMapLayer' = heatLayer(HeatData(currentProperties))
       /\ ~heatMapLayer.null => heatMapLayer' = heatMapLayer]_vars

\* C29: a record without a usable price is scored the same whichever way the
\* missing price is written: the price factor and the total score of a
\* record whose price is zero equal those of the same record with the price
\* absent, and neither exceeds the price factor of a record priced at the
\* median.
\* the record scored last has price 0 or no price, and the list has a median
OnRequestScored ==
    /\ fn = "calculateInvestmentScore"
    /\ Scored.price \in {JsInt(0), Undefined}
    /\ ~IsNaN(calculateMedian(PositivePrices(currentProperties)))

\* the score of the same record with its price written the other way
OtherWay ==
    LET other == [Scored EXCEPT
                      !.price = IF @ = Undefined THEN JsInt(0) ELSE Undefined]
    IN  calculateInvestmentScore(other, [currentProperties EXCEPT ![arg.i] = other], now)

AtMedian ==
    PriceFactor([Scored EXCEPT
                     !.price = calculateMedian(PositivePrices(currentProperties))],
                currentProperties)

C29_OnRequestScoredAlike ==
    OnRequestScored =>
        /\ ret.factors.price = OtherWay.factors.price
        /\ ret.score = OtherWay.score
        /\ JsLe(ret.factors.price, AtMedian)

\* with the price absent the price factor is the lowest, 5, and with the
\* price zero it is the highest, 30, 25 points more in the total; a record
\* priced at the median gets 15
C29_AbsentLowestZeroHighest ==
    OnRequestScored =>
        /\ AtMedian = JsInt(15)
        /\ Scored.price = Undefined =>
               /\ ret.factors.price = JsInt(5)
               /\ OtherWay.factors.price = JsInt(30)
               /\ OtherWay.score = JsAdd(ret.score, JsInt(25))
        /\ Scored.price = JsInt(0) =>
               /\ ret.factors.price = JsInt(30)
               /\ OtherWay.factors.price = JsInt(5)

\* where no record of the list has a price, both get the lowest price factor
C29_AlikeWithoutMedian ==
    (/\ fn = "calculateInvestmentScore"
     /\ Scored.price \in {JsInt(0), Undefined}
     /\ IsNaN(calculateMedian(PositivePrices(currentProperties)))) =>
        /\ ret.factors.price = JsInt(5)
        /\ ret = OtherWay

\* C30: for every result set with positive prices, the figure under 'Below
\* Market' of the undervalued record that is reported, (1 - price/mean)*100,
\* is positive, and so is the figure under 'Above Market' of the overpriced
\* record that is reported, (price/mean - 1)*100.
PriceOf(i) == currentProperties[i].price

Cards == {outlierAnalysis.html[i] : i \in DOMAIN outlierAnalysis.html}

C30_FiguresPositive ==
    outlierAnalysis.shown =>
        \A reported \in Cards :
            /\ reported.card = "undervalued" =>
                   JsGt(BelowMarket(currentProperties[reported.prop], outlierAnalysis.mean), JsInt(0))
            /\ reported.card = "overpriced" =>
                   JsGt(AboveMarket(currentProperties[reported.prop], outlierAnalysis.mean), JsInt(0))

\* the figure is positive for the lowest-priced record below the lower
\* fence and for the highest-priced record above the upper fence
C30_MostExtremePositive ==
    outlierAnalysis.shown =>
        /\ \A i \in DOMAIN outlierAnalysis.undervalued :
               (\A j \in DOMAIN outlierAnalysis.undervalued :
                    JsLe(PriceOf(outlierAnalysis.undervalued[i]),
                         PriceOf(outlierAnalysis.undervalued[j]))) =>
                   JsGt(BelowMarket(currentProperties[outlierAnalysis.undervalued[i]],
                               outlierAnalysis.mean),
                        JsInt(0))
        /\ \A i \in DOMAIN outlierAnalysis.overpriced :
               (\A j \in DOMAIN outlierAnalysis.overpriced :
                    JsGe(PriceOf(outlierAnalysis.overpriced[i]),
                         PriceOf(outlierAnalysis.overpriced[j]))) =>
                   JsGt(AboveMarket(currentProperties[outlierAnalysis.overpriced[i]],
                               outlierAnalysis.mean),
                        JsInt(0))

\* the two figures of a record are each other's opposite
C30_FiguresOpposite ==
    outlierAnalysis.shown =>
        \A reported \in Cards :
            reported.card # "no-outliers" =>
                BelowMarket(currentProperties[reported.prop], outlierAnalysis.mean)
                    = JsNeg(AboveMarket(currentProperties[reported.prop], outlierAnalysis.mean))

====
